---- MODULE Spec2Model ----
(***************************************************************************)
(* hydra_viewer: the configuration composition and snapshot engine.        *)
(*   core/parser.py    HydraConfigParser  (defaults list -> module list)   *)
(*   core/merger.py    ConfigMerger       (merged preview text)            *)
(*   core/snapshot.py  SnapshotManager    (create / list / restore)        *)
(* Files live in one file system, a map from normalised absolute paths     *)
(* (sequences of path segments) to contents.  YAML documents are modelled  *)
(* by their parsed value; strings that the code splits are modelled by     *)
(* their pieces.                                                           *)
(***************************************************************************)
EXTENDS Integers, Sequences, FiniteSets, TLC

VARIABLES
  fs,               \* the file system: normalised path -> content
  dirs,             \* the directories below .hydra_backups (and .hydra_backups itself)
  now,              \* the clock, in ticks of 1/TicksPerSecond second
  parserMain,       \* HydraConfigParser.main_config_path of the parser in use
  mergerMain,       \* ConfigMerger._main_config_path
  snapMain,         \* SnapshotManager.parser.main_config_path (its own parser)
  overrides,        \* the override list handed to merge()
  globOrder,        \* the order in which glob("*.yaml") yields the top-level names
  last,             \* the last completed call and what it returned
  born,             \* history: snapshot directory -> the file system when create() made it
  budget,           \* how many more outside events (changes, failing copies) the run may see
  current,          \* find_config_root: the directory under examination
  walk_pc,          \* find_config_root: the position in its loop
  returned,         \* find_config_root: what it returned
  suppress_watch,   \* FileBrowser._suppress_watch
  action_pc,        \* FileBrowser: the position of its running action handler
  unseen,           \* the changes on disk that awatch() has not yet handed to the watch loop
  tree,             \* FileBrowser: the files its tree shows
  debounce_timer,   \* HydraViewer._debounce_timer: the timer it holds, {} for None
  timers,           \* the timers that are running: timer -> the ticks until it fires
  text,             \* the text of the editor's text area
  quiet,            \* history: the ticks since the last TextArea.Changed, capped
  unsaved           \* history: the TextArea.Changed events since the last auto-save

(* the variables of the components around the engine: the search for the   *)
(* configuration root, the file browser, the editor                        *)
walkVars == <<current, walk_pc, returned>>
browserVars == <<suppress_watch, action_pc, unseen, tree>>
editorVars == <<debounce_timer, timers, text, quiet, unsaved>>
uiVars == <<current, walk_pc, returned, suppress_watch, action_pc, unseen, tree, debounce_timer, timers, text, quiet, unsaved>>

vars == <<fs, dirs, now, parserMain, mergerMain, snapMain, overrides, globOrder, last, born, budget, uiVars>>

(* the editor with no change pending *)
EditorIdle ==
  /\ debounce_timer = {}
  /\ timers = <<>>
  /\ text = [kind |-> "empty"]
  /\ quiet = 0
  /\ unsaved = 0

(* the components around the engine at rest *)
UiIdle ==
  /\ current = <<>>
  /\ walk_pc = "idle"
  /\ returned = [done |-> FALSE]
  /\ suppress_watch = FALSE
  /\ action_pc = [step |-> "idle"]
  /\ unseen = {}
  /\ tree = {}
  /\ debounce_timer = {}
  /\ timers = <<>>
  /\ text = [kind |-> "empty"]
  /\ quiet = 0
  /\ unsaved = 0

-----------------------------------------------------------------------------
(* Bounds of the model *)

MaxDefaults == 3
MaxOverrides == 2

-----------------------------------------------------------------------------
(* Configuration values: what yaml / OmegaConf hold.                        *)
(*   t = "s"  a scalar (its text in s)                                      *)
(*   t = "q"  the mandatory-missing marker ???                              *)
(*   t = "m"  a mapping (key -> value in m)                                 *)
(*   t = "l"  a sequence (its items in l)                                   *)

EmptyMap == [k \in {} |-> 0]

Sc(x) == [t |-> "s", s |-> x, m |-> EmptyMap, l |-> <<>>]
Missing == [t |-> "q", s |-> "???", m |-> EmptyMap, l |-> <<>>]
Mp(f) == [t |-> "m", s |-> "", m |-> f, l |-> <<>>]
Ls(items) == [t |-> "l", s |-> "", m |-> EmptyMap, l |-> items]

(* OmegaConf.merge / DictConfig.merge_with on two mappings: BaseContainer.  *)
(* _map_merge.  Two mappings merge key by key; a ??? in the source leaves   *)
(* an existing destination value alone; anything else replaces.             *)
RECURSIVE MapMerge(_, _)
MergeNode(dn, sn) ==
  IF dn.t = "m" /\ sn.t = "m" THEN Mp(MapMerge(dn.m, sn.m))
  ELSE IF sn.t = "q" THEN dn
  ELSE sn

MapMerge(dest, src) ==
  [k \in (DOMAIN dest) \cup (DOMAIN src) |->
     IF k \notin DOMAIN src THEN dest[k]
     ELSE IF k \notin DOMAIN dest THEN src[k]
     ELSE MergeNode(dest[k], src[k])]

-----------------------------------------------------------------------------
(* Strings with '/' and file names.  A string is modelled by itself and by  *)
(* the pieces str.split("/") gives.                                         *)

PathStrings ==
  {"_self_", "root", "a", "b", "n", "m", "g", "h", "..", "override g",
   "g/n", "g/m", "g/h", "g/h/n", "../n", "h/m", "../0_t", "../0_t/main"}

Split(s) ==
  CASE s = "g/n" -> <<"g", "n">>
    [] s = "g/m" -> <<"g", "m">>
    [] s = "h/m" -> <<"h", "m">>
    [] s = "g/h" -> <<"g", "h">>
    [] s = "g/h/n" -> <<"g", "h", "n">>
    [] s = "../n" -> <<"..", "n">>
    [] s = "../0_t" -> <<"..", "0_t">>
    [] s = "../0_t/main" -> <<"..", "0_t", "main">>
    [] OTHER -> <<s>>

Join(segs) == CHOOSE s \in PathStrings : Split(s) = segs

HasSlash(s) == Len(Split(s)) > 1

(* f"{name}.yaml" *)
YamlFile(name) ==
  CASE name = "a" -> "a.yaml"
    [] name = "b" -> "b.yaml"
    [] name = "n" -> "n.yaml"
    [] name = "m" -> "m.yaml"
    [] name = "main" -> "main.yaml"
    [] name = "alt" -> "alt.yaml"
    [] OTHER -> "other.yaml"

(* Path.stem of a top-level document *)
Stem(file) ==
  CASE file = "main.yaml" -> "main"
    [] file = "alt.yaml" -> "alt"
    [] OTHER -> "other"

(* The configuration root and the paths below it.  Paths are lexical, as    *)
(* pathlib keeps them; the operating system resolves ".." when a file is    *)
(* opened (Normalize).                                                      *)
ConfigDir == <<"home", "cfg">>
NoPath == <<>>

RECURSIVE Norm(_, _)
Norm(acc, rest) ==
  IF rest = <<>> THEN acc
  ELSE IF Head(rest) = ".."
       THEN Norm(IF acc = <<>> THEN acc ELSE SubSeq(acc, 1, Len(acc) - 1), Tail(rest))
       ELSE Norm(Append(acc, Head(rest)), Tail(rest))

Normalize(p) == Norm(<<>>, p)

Exists(files, p) == Normalize(p) \in DOMAIN files
ReadFile(files, p) == files[Normalize(p)]

(* Path.relative_to: the lexical remainder after the prefix *)
IsUnder(p, dir) == Len(p) >= Len(dir) /\ SubSeq(p, 1, Len(dir)) = dir
RelativeTo(p, dir) == SubSeq(p, Len(dir) + 1, Len(p))

WriteFile(files, p, content) ==
  [q \in (DOMAIN files) \cup {Normalize(p)} |->
     IF q = Normalize(p) THEN content ELSE files[q]]

RemoveFile(files, p) ==
  [q \in (DOMAIN files) \ {Normalize(p)} |-> files[q]]

-----------------------------------------------------------------------------
(* YAML documents on disk.                                                  *)
(*   kind = "map"      a mapping (cfg)                                      *)
(*   kind = "list"     a sequence; mention: it holds the item "defaults"    *)
(*   kind = "empty"    an empty document                                    *)
(*   kind = "invalid"  text that is not YAML                                *)

MapDoc(cfg) == [kind |-> "map", cfg |-> cfg, mention |-> "defaults" \in DOMAIN cfg]
ListDoc(mention) == [kind |-> "list", cfg |-> EmptyMap, mention |-> mention]
EmptyDoc == [kind |-> "empty", cfg |-> EmptyMap, mention |-> FALSE]
InvalidDoc == [kind |-> "invalid", cfg |-> EmptyMap, mention |-> FALSE]

(* Entries of a defaults list *)
StrItem(s) == [k |-> "str", s |-> s, kv |-> <<>>]
MapItem(kv) == [k |-> "map", s |-> "", kv |-> kv]
OtherItem == [k |-> "other", s |-> "", kv |-> <<>>]
(* one key/value pair of a mapping entry; ns: the value is a string *)
Pair(g, n) == [g |-> g, n |-> n, ns |-> TRUE]
PairNonStr(g) == [g |-> g, n |-> "", ns |-> FALSE]

SelfItem == StrItem("_self_")

(* OmegaConf.load: raises on a missing file or on text that is not YAML;    *)
(* an empty document loads as an empty DictConfig.                          *)
OmegaConfLoad(files, p) ==
  IF ~Exists(files, p) THEN [exc |-> TRUE, node |-> Mp(EmptyMap)]
  ELSE LET d == ReadFile(files, p) IN
    CASE d.kind = "map" -> [exc |-> FALSE, node |-> Mp(d.cfg)]
      [] d.kind = "empty" -> [exc |-> FALSE, node |-> Mp(EmptyMap)]
      [] d.kind = "list" -> [exc |-> FALSE, node |-> Ls(<<>>)]
      [] OTHER -> [exc |-> TRUE, node |-> Mp(EmptyMap)]

(* Keys of a mapping in the order a Python dict iterates them (the document *)
(* order, which the model's mappings do not keep: some fixed order).        *)
RECURSIVE KeySeq(_)
KeySeq(keys) ==
  IF keys = {} THEN <<>>
  ELSE LET k == CHOOSE x \in keys : TRUE IN <<k>> \o KeySeq(keys \ {k})

(* cfg.get("defaults", []) turned into a Python list, or the empty list:    *)
(* parser.py 75-77, merger.py 104-105.                                      *)
DefaultsItems(cfg) ==
  IF "defaults" \notin DOMAIN cfg THEN <<>>
  ELSE LET d == cfg["defaults"] IN
    CASE d.t = "l" -> d.l
      [] d.t = "m" -> [i \in 1..Len(KeySeq(DOMAIN d.m)) |-> StrItem(KeySeq(DOMAIN d.m)[i])]
      [] OTHER -> <<>>

-----------------------------------------------------------------------------
(* core/parser.py *)

ConfigModule(group, name, path, resolved) ==
  [group |-> group, name |-> name, path |-> path, resolved |-> resolved]

(* _add_module looking for <config_dir>/<name>.yaml, the group forgotten: a mutant *)
AddModuleNoGroup(files, modules, group, name) ==
  LET full_path == ConfigDir \o <<YamlFile(name)>>
      resolved == Exists(files, full_path)
  IN Append(modules, ConfigModule(group, name, IF resolved THEN full_path ELSE NoPath, resolved))

(* HydraConfigParser._add_module *)
AddModule(files, modules, group, name) ==
  LET full_path == ConfigDir \o Split(group) \o <<YamlFile(name)>>
      resolved == Exists(files, full_path)
  IN Append(modules, ConfigModule(group, name, IF resolved THEN full_path ELSE NoPath, resolved))

(* HydraConfigParser._resolve_string_item *)
ResolveStringItem(files, modules, item) ==
  LET p == ConfigDir \o <<YamlFile(item)>> IN
  IF Exists(files, p)
  THEN Append(modules, ConfigModule("root", item, p, TRUE))
  ELSE modules

(* the loop body over one mapping entry's pairs, parser.py 98-103 *)
RECURSIVE ParsePairs(_, _, _)
ParsePairs(files, modules, kv) ==
  IF kv = <<>> THEN modules
  ELSE LET pr == Head(kv) IN
    ParsePairs(files,
               IF pr.ns THEN AddModule(files, modules, pr.g, pr.n) ELSE modules,
               Tail(kv))

(* the loop body of parse(), parser.py 82-103 *)
ParseItem(files, modules, item) ==
  CASE item.k = "str" ->
         IF item.s = "_self_" THEN modules
         ELSE IF HasSlash(item.s)
              THEN LET segs == Split(item.s) IN
                   AddModule(files, modules, Join(SubSeq(segs, 1, Len(segs) - 1)), segs[Len(segs)])
              ELSE ResolveStringItem(files, modules, item.s)
    [] item.k = "map" -> ParsePairs(files, modules, item.kv)
    [] OTHER -> modules

(* the same loop adding each entry's modules in front: a mutant *)
RECURSIVE ParseLoopReversed(_, _, _)
ParseLoopReversed(files, modules, items) ==
  IF items = <<>> THEN modules
  ELSE ParseLoopReversed(files, ParseItem(files, <<>>, Head(items)) \o modules, Tail(items))

(* parser.py 82-106: the loop over the defaults list *)
RECURSIVE ParseLoop(_, _, _)
ParseLoop(files, modules, items) ==
  IF items = <<>> THEN modules
  ELSE ParseLoop(files, ParseItem(files, modules, Head(items)), Tail(items))

(* HydraConfigParser.parse *)
Parse(files, main) ==
  IF main = NoPath THEN <<>>
  ELSE LET ld == OmegaConfLoad(files, main) IN
    IF ld.exc \/ ld.node.t # "m" THEN <<>>
    ELSE ParseLoop(files, <<>>, DefaultsItems(ld.node.m))

-----------------------------------------------------------------------------
(* core/merger.py *)

(* The text merge() returns, line by line.  A line is a '#' comment or the  *)
(* YAML rendering of a configuration (kept as the configuration itself).    *)
Comment(what) == [c |-> TRUE, what |-> what, cfg |-> EmptyMap]
Plain(what) == [c |-> FALSE, what |-> what, cfg |-> EmptyMap]
ToYaml(cfg) == [c |-> FALSE, what |-> "yaml", cfg |-> cfg]

NoConfigText == <<Comment("# Error: No config.yaml found")>>

(* An override string, by its pieces: "~", "+", "=", ".", key names and     *)
(* value texts.                                                             *)
StartsWith(ov, tok) == Len(ov) >= 1 /\ ov[1] = tok
HasEq(ov) == \E i \in 1..Len(ov) : ov[i] = "="
FirstEq(ov) == CHOOSE i \in 1..Len(ov) : ov[i] = "=" /\ \A j \in 1..(i - 1) : ov[j] # "="
KeyPart(ov) == SubSeq(ov, 1, FirstEq(ov) - 1)
ValuePart(ov) == SubSeq(ov, FirstEq(ov) + 1, Len(ov))

(* the key with one leading "+" taken off at most: a mutant *)
StripPlusOnce(key) == IF StartsWith(key, "+") THEN Tail(key) ELSE key

(* merger.py 135-138 *)
StripPlus(key) ==
  IF Len(key) >= 2 /\ key[1] = "+" /\ key[2] = "+" THEN SubSeq(key, 3, Len(key))
  ELSE IF StartsWith(key, "+") THEN Tail(key)
  ELSE key

(* merger.py 128-139: the cleaned "key=value" strings *)
RECURSIVE CleanOverrides(_)
CleanOverrides(ovs) ==
  IF ovs = <<>> THEN <<>>
  ELSE LET ov == Head(ovs) IN
    IF StartsWith(ov, "~") \/ ~HasEq(ov) THEN CleanOverrides(Tail(ovs))
    ELSE <<StripPlus(KeyPart(ov)) \o <<"=">> \o ValuePart(ov)>> \o CleanOverrides(Tail(ovs))

(* yaml.load of an override's value text *)
ParseValue(v) ==
  CASE v = <<>> -> [exc |-> FALSE, node |-> Sc("null")]
    [] v = <<"1">> -> [exc |-> FALSE, node |-> Sc("1")]
    [] v = <<"2">> -> [exc |-> FALSE, node |-> Sc("2")]
    [] v = <<"???">> -> [exc |-> FALSE, node |-> Missing]
    [] v = <<"{p: 1}">> -> [exc |-> FALSE, node |-> Mp("p" :> Sc("1"))]
    [] v = <<"{q: 1}">> -> [exc |-> FALSE, node |-> Mp("q" :> Sc("1"))]
    [] v = <<"{">> -> [exc |-> TRUE, node |-> Sc("")]
    [] OTHER -> [exc |-> FALSE, node |-> Sc("text")]

(* a dotted key by its names: "g.x" -> <<"g", "x">> *)
RECURSIVE KeyNames(_)
KeyNames(key) ==
  IF key = <<>> THEN <<>>
  ELSE IF Head(key) = "." THEN KeyNames(Tail(key))
  ELSE <<Head(key)>> \o KeyNames(Tail(key))

(* OmegaConf.update(cfg, key, value): walk the dotted key, replacing what   *)
(* is no mapping on the way by an empty one; a mapping value merges into a  *)
(* mapping already there, anything else is assigned.                        *)
RECURSIVE Update(_, _, _)
Update(cfg, names, node) ==
  LET k == Head(names) IN
  IF Len(names) = 1
  THEN IF k \in DOMAIN cfg /\ cfg[k].t = "m" /\ node.t = "m"
       THEN (k :> Mp(MapMerge(cfg[k].m, node.m))) @@ cfg
       ELSE (k :> node) @@ cfg
  ELSE LET inner == IF k \in DOMAIN cfg /\ cfg[k].t = "m" THEN cfg[k].m ELSE EmptyMap
       IN (k :> Mp(Update(inner, Tail(names), node))) @@ cfg

(* OmegaConf.from_dotlist *)
RECURSIVE FromDotlist(_, _)
FromDotlist(cfg, clean) ==
  IF clean = <<>> THEN [exc |-> FALSE, cfg |-> cfg]
  ELSE LET arg == Head(clean)
           val == ParseValue(ValuePart(arg))
       IN IF val.exc THEN [exc |-> TRUE, cfg |-> cfg]
          ELSE FromDotlist(Update(cfg, KeyNames(KeyPart(arg)), val.node), Tail(clean))

(* DictConfig.merge_with(loaded document): a sequence cannot be merged into *)
(* a mapping.                                                               *)
MergeWith(cfg, node) ==
  IF node.t = "m" THEN [exc |-> FALSE, acc |-> MapMerge(cfg, node.m)]
  ELSE [exc |-> TRUE, acc |-> cfg]

(* _merge_module_by_name without its exists() check: a mutant *)
MergeModuleByNameUnchecked(files, cfg, name) ==
  LET segs == Split(name)
      p == ConfigDir \o SubSeq(segs, 1, Len(segs) - 1) \o <<YamlFile(segs[Len(segs)])>>
      mod_cfg == OmegaConfLoad(files, p)
  IN IF mod_cfg.exc THEN [exc |-> TRUE, acc |-> cfg] ELSE MergeWith(cfg, mod_cfg.node)

(* ConfigMerger._merge_module_by_name *)
MergeModuleByName(files, cfg, name) ==
  LET segs == Split(name)
      p == ConfigDir \o SubSeq(segs, 1, Len(segs) - 1) \o <<YamlFile(segs[Len(segs)])>>
  IN IF Exists(files, p)
     THEN LET mod_cfg == OmegaConfLoad(files, p) IN
          IF mod_cfg.exc THEN [exc |-> TRUE, acc |-> cfg] ELSE MergeWith(cfg, mod_cfg.node)
     ELSE [exc |-> FALSE, acc |-> cfg]

(* ConfigMerger._merge_module_by_group: the loaded module goes under the    *)
(* key <group>; the code loads and merges it twice.                         *)
MergeModuleByGroup(files, cfg, group, name) ==
  LET p == ConfigDir \o Split(group) \o <<YamlFile(name)>> IN
  IF Exists(files, p)
  THEN LET mod_cfg == OmegaConfLoad(files, p) IN
       IF mod_cfg.exc THEN [exc |-> TRUE, acc |-> cfg]
       ELSE LET group_cfg == (group :> mod_cfg.node)
                once == MapMerge(cfg, group_cfg)
            IN [exc |-> FALSE, acc |-> MapMerge(once, group_cfg)]
  ELSE [exc |-> FALSE, acc |-> cfg]

(* group == "override" or group.startswith("override ") *)
IsOverrideKey(group) == group \in {"override", "override g"}

(* merger.py 116-122: the pairs of one mapping entry *)
RECURSIVE MergePairs(_, _, _)
MergePairs(files, cfg, kv) ==
  IF kv = <<>> THEN [exc |-> FALSE, acc |-> cfg]
  ELSE LET pr == Head(kv) IN
    IF IsOverrideKey(pr.g) \/ ~pr.ns THEN MergePairs(files, cfg, Tail(kv))
    ELSE LET r == MergeModuleByGroup(files, cfg, pr.g, pr.n) IN
         IF r.exc THEN r ELSE MergePairs(files, r.acc, Tail(kv))

(* the loop body with _self_ merged under the accumulator: a mutant *)
MergeItemSelfUnder(files, cfg, base_cfg, item) ==
  CASE item.k = "str" ->
         IF item.s = "_self_" THEN [exc |-> FALSE, acc |-> MapMerge(base_cfg, cfg)]
         ELSE MergeModuleByName(files, cfg, item.s)
    [] item.k = "map" -> MergePairs(files, cfg, item.kv)
    [] OTHER -> [exc |-> FALSE, acc |-> cfg]

(* merger.py 109-122: one entry of the defaults list *)
MergeItem(files, cfg, base_cfg, item) ==
  CASE item.k = "str" ->
         IF item.s = "_self_" THEN [exc |-> FALSE, acc |-> MapMerge(cfg, base_cfg)]
         ELSE MergeModuleByName(files, cfg, item.s)
    [] item.k = "map" -> MergePairs(files, cfg, item.kv)
    [] OTHER -> [exc |-> FALSE, acc |-> cfg]

(* the loop over the defaults list; trace keeps the accumulator after each  *)
(* entry                                                                    *)
RECURSIVE MergeLoop(_, _, _, _)
MergeLoop(files, st, base_cfg, items) ==
  IF items = <<>> \/ st.exc THEN st
  ELSE LET r == MergeItem(files, st.acc, base_cfg, Head(items)) IN
       MergeLoop(files, [exc |-> r.exc, acc |-> r.acc, trace |-> Append(st.trace, r.acc)],
                 base_cfg, Tail(items))

(* the overrides merged under the accumulator: a mutant *)
ApplyOverridesFirst(cfg, ovs) ==
  LET clean_overrides == CleanOverrides(ovs) IN
  IF ovs = <<>> \/ clean_overrides = <<>> THEN [exc |-> FALSE, acc |-> cfg]
  ELSE LET override_conf == FromDotlist(EmptyMap, clean_overrides) IN
       IF override_conf.exc THEN [exc |-> TRUE, acc |-> cfg]
       ELSE [exc |-> FALSE, acc |-> MapMerge(override_conf.cfg, cfg)]

(* merger.py 127-142 *)
ApplyOverrides(cfg, ovs) ==
  LET clean_overrides == CleanOverrides(ovs) IN
  IF ovs = <<>> \/ clean_overrides = <<>> THEN [exc |-> FALSE, acc |-> cfg]
  ELSE LET override_conf == FromDotlist(EmptyMap, clean_overrides) IN
       IF override_conf.exc THEN [exc |-> TRUE, acc |-> cfg]
       ELSE [exc |-> FALSE, acc |-> MapMerge(cfg, override_conf.cfg)]

(* yaml.safe_load(text) is truthy and holds "defaults": merger.py 164-165,  *)
(* parser.py 55-56.  Text that is not YAML raises, which the loop skips.    *)
MentionsDefaults(doc) ==
  CASE doc.kind = "map" -> "defaults" \in DOMAIN doc.cfg
    [] doc.kind = "list" -> doc.mention
    [] OTHER -> FALSE

(* glob("*.yaml") of the configuration root, in the order the OS gives *)
Candidates(files, order) ==
  LET IsThere(name) == Exists(files, ConfigDir \o <<name>>) IN SelectSeq(order, IsThere)

FirstWithDefaults(files, order) ==
  LET cands == Candidates(files, order)
      hits == {i \in 1..Len(cands) : MentionsDefaults(ReadFile(files, ConfigDir \o <<cands[i]>>))}
  IN IF hits # {} THEN ConfigDir \o <<cands[CHOOSE i \in hits : \A j \in hits : i <= j]>>
     ELSE IF cands # <<>> THEN ConfigDir \o <<cands[1]>>
     ELSE NoPath

(* ConfigMerger._find_main_config *)
MergerFindMainConfig(files, main, order) ==
  IF main # NoPath /\ Exists(files, main) THEN main
  ELSE FirstWithDefaults(files, order)

(* What the body of _merge_manual hands on: exc says an exception was      *)
(* raised inside, found that a root document was found.                     *)
ManualNone == [exc |-> FALSE, found |-> FALSE, acc |-> EmptyMap, trace |-> <<>>]
ManualFailed == [exc |-> TRUE, found |-> TRUE, acc |-> EmptyMap, trace |-> <<>>]

(* merger.py 140-144: the overrides are applied, the result is rendered *)
ManualDone(looped, done) ==
  IF done.exc THEN ManualFailed
  ELSE [exc |-> FALSE, found |-> TRUE, acc |-> done.acc, trace |-> looped.trace]

(* merger.py 124-142: after the loop over the defaults list *)
ManualLooped(base_cfg, looped, ovs) ==
  IF looped.exc THEN ManualFailed
  ELSE ManualDone(looped,
                  ApplyOverrides(IF DefaultsItems(base_cfg) = <<>> THEN base_cfg ELSE looped.acc, ovs))

(* merger.py 100-122: the root document is loaded and its defaults list     *)
(* walked                                                                   *)
ManualLoaded(files, ld, ovs) ==
  IF ld.exc \/ ld.node.t # "m" THEN ManualFailed
  ELSE ManualLooped(ld.node.m,
                    MergeLoop(files, [exc |-> FALSE, acc |-> EmptyMap, trace |-> <<>>],
                              ld.node.m, DefaultsItems(ld.node.m)),
                    ovs)

(* merger.py 96-98 *)
ManualFrom(files, main_cfg_path, ovs) ==
  IF main_cfg_path = NoPath THEN ManualNone
  ELSE ManualLoaded(files, OmegaConfLoad(files, main_cfg_path), ovs)

(* ConfigMerger._merge_manual, merger.py 96-144, before the catch-all *)
ManualBody(files, main, order, ovs) ==
  ManualFrom(files, MergerFindMainConfig(files, main, order), ovs)

(* the return statements of _merge_manual without its try/except: a mutant *)
ManualReturnUncaught(r) ==
  IF r.exc THEN [exc |-> TRUE, ok |-> FALSE, text |-> <<>>, trace |-> r.trace]
  ELSE IF ~r.found THEN [exc |-> FALSE, ok |-> FALSE, text |-> NoConfigText, trace |-> r.trace]
  ELSE [exc |-> FALSE, ok |-> TRUE, text |-> <<ToYaml(r.acc)>>, trace |-> r.trace]

(* merger.py 98, 144, 146-147: what _merge_manual returns; ok says the text *)
(* is the rendered merge                                                    *)
ManualReturn(r) ==
  IF r.exc
  THEN [exc |-> FALSE, ok |-> FALSE, trace |-> r.trace,
        text |-> <<Comment("# Error merging config:"), Comment("# <the exception>")>>]
  ELSE IF ~r.found THEN [exc |-> FALSE, ok |-> FALSE, text |-> NoConfigText, trace |-> r.trace]
  ELSE [exc |-> FALSE, ok |-> TRUE, text |-> <<ToYaml(r.acc)>>, trace |-> r.trace]

(* ConfigMerger._merge_manual *)
MergeManual(files, main, order, ovs) == ManualReturn(ManualBody(files, main, order, ovs))

(* What Hydra's compose and OmegaConf's interpolation do is outside this    *)
(* repository: each call ends in one of these ways.                         *)
HydraOutcomes == {"ok", "resolve_failed", "compose_failed", "compose_failed_long"}

(* ConfigMerger._merge_with_hydra *)
MergeWithHydra(outcome) ==
  CASE outcome = "ok" -> [exc |-> FALSE, text |-> <<Plain("composed yaml")>>]
    [] outcome = "resolve_failed" ->
         [exc |-> FALSE,
          text |-> <<Comment("# Warning: some interpolations could not be resolved"),
                     Comment("#   (<the exception>)"), Plain("composed yaml, unresolved")>>]
    [] OTHER -> [exc |-> TRUE, text |-> <<>>]

(* the first line of merge()'s fallback text; an exception message of       *)
(* several lines continues on lines that are no comments                    *)
FallbackPrefix(outcome) ==
  IF outcome = "compose_failed_long"
  THEN <<Comment("# Hydra compose failed (<the exception, first line>"),
         Plain("<the exception, last line>); showing manual OmegaConf merge")>>
  ELSE <<Comment("# Hydra compose failed (<the exception>); showing manual OmegaConf merge")>>

(* merger.py 64-65: the fallback's text behind the comment line *)
MergeFallback(outcome, fallback) ==
  IF fallback.exc
  THEN [exc |-> TRUE, text |-> <<>>, fellBack |-> TRUE, manualOk |-> FALSE]
  ELSE [exc |-> FALSE, text |-> FallbackPrefix(outcome) \o fallback.text,
        fellBack |-> TRUE, manualOk |-> fallback.ok]

(* merge() that also falls back when the compose strategy returned the     *)
(* unresolved text                                                          *)
MergeComposedEager(files, main, order, ovs, outcome, h) ==
  IF ~h.exc /\ Len(h.text) = 1
  THEN [exc |-> FALSE, text |-> h.text, fellBack |-> FALSE, manualOk |-> FALSE]
  ELSE MergeFallback(outcome, MergeManual(files, main, order, ovs))

(* merger.py 60-65: the compose strategy, and the fallback when it raises *)
MergeComposed(files, main, order, ovs, outcome, h) ==
  IF ~h.exc THEN [exc |-> FALSE, text |-> h.text, fellBack |-> FALSE, manualOk |-> FALSE]
  ELSE MergeFallback(outcome, MergeManual(files, main, order, ovs))

(* ConfigMerger.merge *)
Merge(files, main, order, ovs, outcome) ==
  IF MergerFindMainConfig(files, main, order) = NoPath
  THEN [exc |-> FALSE, text |-> NoConfigText, fellBack |-> FALSE, manualOk |-> FALSE]
  ELSE MergeComposed(files, main, order, ovs, outcome, MergeWithHydra(outcome))

-----------------------------------------------------------------------------
(* Shared pieces of the specifications *)

MainPath == ConfigDir \o <<"main.yaml">>
AltPath == ConfigDir \o <<"alt.yaml">>

Idle == [op |-> "none"]

(* all sequences over S of length at most n *)
RECURSIVE SeqsUpTo(_, _)
SeqsUpTo(S, n) ==
  IF n = 0 THEN {<<>>}
  ELSE LET shorter == SeqsUpTo(S, n - 1) IN
       shorter \cup {Append(q, x) : q \in {r \in shorter : Len(r) = n - 1}, x \in S}

RootDoc(items, body) == MapDoc(("defaults" :> Ls(items)) @@ body)

-----------------------------------------------------------------------------
(* The resolver on its own: parse() over a root document and module files   *)
(* that come and go.                                                        *)

ParseEntries ==
  {SelfItem, StrItem("a"), StrItem("g/h/n"), MapItem(<<Pair("g", "n")>>),
   MapItem(<<Pair("g", "m"), Pair("h", "m")>>), MapItem(<<PairNonStr("g")>>), OtherItem}

ParseFiles ==
  {ConfigDir \o <<"a.yaml">>, ConfigDir \o <<"g", "n.yaml">>, ConfigDir \o <<"g", "h", "n.yaml">>,
   ConfigDir \o <<"g", "m.yaml">>, ConfigDir \o <<"h", "m.yaml">>}

InitParse ==
  /\ \E items \in SeqsUpTo(ParseEntries, MaxDefaults) :
       fs = (MainPath :> RootDoc(items, EmptyMap))
  /\ dirs = {}
  /\ now = 0
  /\ parserMain = MainPath
  /\ mergerMain = NoPath
  /\ snapMain = NoPath
  /\ overrides = <<>>
  /\ globOrder = <<"main.yaml">>
  /\ last = Idle
  /\ born = EmptyMap
  /\ budget = 0
  /\ UiIdle

(* a module file appears on disk *)
ModuleFileAppears ==
  /\ \E p \in ParseFiles \ DOMAIN fs : fs' = WriteFile(fs, p, EmptyDoc)
  /\ last' = Idle
  /\ UNCHANGED <<dirs, now, parserMain, mergerMain, snapMain, overrides, globOrder, born, budget>>
  /\ UNCHANGED uiVars

(* a module file is deleted *)
ModuleFileVanishes ==
  /\ \E p \in ParseFiles \cap DOMAIN fs : fs' = RemoveFile(fs, p)
  /\ last' = Idle
  /\ UNCHANGED <<dirs, now, parserMain, mergerMain, snapMain, overrides, globOrder, born, budget>>
  /\ UNCHANGED uiVars

(* HydraConfigParser.parse() is called *)
ParseCall ==
  /\ last' = [op |-> "parse", modules |-> Parse(fs, parserMain)]
  /\ UNCHANGED <<fs, dirs, now, parserMain, mergerMain, snapMain, overrides, globOrder, born, budget>>
  /\ UNCHANGED uiVars

NextParse == ModuleFileAppears \/ ModuleFileVanishes \/ ParseCall

SpecParse == InitParse /\ [][NextParse]_vars

(* the defaults list of the root document in use *)
CurrentDefaults ==
  IF parserMain # NoPath /\ Exists(fs, parserMain) /\ ReadFile(fs, parserMain).kind = "map"
  THEN DefaultsItems(ReadFile(fs, parserMain).cfg)
  ELSE <<>>

GroupName(m) == <<m.group, m.name>>

(* what one entry is expected to give, stated from the entry's surface form *)
RECURSIVE StringPairs(_)
StringPairs(kv) ==
  IF kv = <<>> THEN <<>>
  ELSE (IF Head(kv).ns THEN <<<<Head(kv).g, Head(kv).n>>>> ELSE <<>>) \o StringPairs(Tail(kv))

IsGroupNameString(e) == e.k = "str" /\ e.s # "_self_" /\ HasSlash(e.s)
IsBareName(e) == e.k = "str" /\ e.s # "_self_" /\ ~HasSlash(e.s)

LastSlash(s) ==
  LET segs == Split(s) IN <<Join(SubSeq(segs, 1, Len(segs) - 1)), segs[Len(segs)]>>

EntryYield(e) ==
  IF IsGroupNameString(e) THEN <<LastSlash(e.s)>>
  ELSE IF IsBareName(e) /\ Exists(fs, ConfigDir \o <<YamlFile(e.s)>>) THEN <<<<"root", e.s>>>>
  ELSE IF e.k = "map" THEN StringPairs(e.kv)
  ELSE <<>>

RECURSIVE Yields(_)
Yields(items) ==
  IF items = <<>> THEN <<>> ELSE EntryYield(Head(items)) \o Yields(Tail(items))

NotSelf(e) == e # SelfItem

(* the module an entry stands for, when each entry stands for exactly one *)
EntryModule(e) ==
  IF IsGroupNameString(e) THEN LastSlash(e.s)
  ELSE IF IsBareName(e) THEN <<"root", e.s>>
  ELSE IF e.k = "map" /\ e.kv # <<>> THEN <<Head(e.kv).g, Head(e.kv).n>>
  ELSE <<"", "">>

(* C4 as claimed: the module list is the defaults list without its _self_   *)
(* entries, one module per remaining entry, in the same order.              *)
C4_OneModulePerEntry ==
  last.op = "parse" =>
    LET rest == SelectSeq(CurrentDefaults, NotSelf) IN
    /\ Len(last.modules) = Len(rest)
    /\ \A i \in 1..Len(rest) : GroupName(last.modules[i]) = EntryModule(rest[i])

(* C4 amended: the module list is, in declaration order, one module per     *)
(* group/name string, one per bare name whose root-level file exists and    *)
(* one per string-valued key of a mapping entry; _self_, bare names without *)
(* a file and entries of any other shape give no module.                    *)
C4_OrderPreserved ==
  last.op = "parse" =>
    [i \in 1..Len(last.modules) |-> GroupName(last.modules[i])] = Yields(CurrentDefaults)

(* a parse of a list with _self_ between two entries that both give modules *)
C4_Witness ==
  /\ last.op = "parse"
  /\ Len(CurrentDefaults) = 3
  /\ CurrentDefaults[2] = SelfItem
  /\ Len(last.modules) = 2
  /\ GroupName(last.modules[1]) # GroupName(last.modules[2])

(* C5: a module from a group/name entry is resolved iff                     *)
(* <config_dir>/<group>/<name>.yaml exists when parse() runs, every module  *)
(* has resolved = (path is not None), and a resolved module's path is that  *)
(* file.                                                                    *)
C5_ResolutionCorrect ==
  last.op = "parse" =>
    \A i \in 1..Len(last.modules) :
      LET mod == last.modules[i]
          file == ConfigDir \o Split(mod.group) \o <<YamlFile(mod.name)>>
      IN /\ mod.resolved = (mod.path # NoPath)
         /\ mod.group # "root" =>
              /\ mod.resolved = Exists(fs, file)
              /\ mod.resolved => mod.path = file

C5_Witness ==
  /\ last.op = "parse"
  /\ \E i, j \in 1..Len(last.modules) :
       /\ last.modules[i].group # "root" /\ last.modules[i].resolved
       /\ last.modules[j].group # "root" /\ ~last.modules[j].resolved

-----------------------------------------------------------------------------
(* The manual fallback on its own: _merge_manual (what merge() returns      *)
(* below its first line once compose has failed) and parse(), over root     *)
(* documents, module files and override lists drawn from small sets.        *)

MaxMergeDefaults == 2

TheKey == "x"

RootValues == {Sc("1"), Missing, Mp("p" :> Sc("1"))}
ModuleValues == {Sc("2"), Missing, Mp("q" :> Sc("1"))}

ManualEntries == {SelfItem, StrItem("a"), StrItem("g/n"), MapItem(<<Pair("g", "n")>>)}

(* x=1   +x=2   ++x={q: 1}   x=???   ~x=2 *)
ManualOverrides ==
  {<<"x", "=", "1">>, <<"+", "x", "=", "2">>, <<"+", "+", "x", "=", "{q: 1}">>,
   <<"x", "=", "???">>, <<"~", "x", "=", "2">>}

APath == ConfigDir \o <<"a.yaml">>
GNPath == ConfigDir \o <<"g", "n.yaml">>

(* a file system from optional files: a path with content "absent" is left out *)
Absent == [kind |-> "absent"]
FilesOf(f) == [p \in {q \in DOMAIN f : f[q] # Absent} |-> f[p]]

InitManual ==
  /\ \E items \in SeqsUpTo(ManualEntries, MaxMergeDefaults),
        body \in {EmptyMap} \cup {(TheKey :> v) : v \in RootValues},
        a \in {Absent} \cup {MapDoc(TheKey :> v) : v \in ModuleValues},
        gn \in {Absent, MapDoc(TheKey :> Sc("2"))} :
       fs = FilesOf((MainPath :> RootDoc(items, body)) @@ (APath :> a) @@ (GNPath :> gn))
  /\ overrides \in SeqsUpTo(ManualOverrides, MaxOverrides)
  /\ dirs = {}
  /\ now = 0
  /\ parserMain = MainPath
  /\ mergerMain = MainPath
  /\ snapMain = NoPath
  /\ globOrder = <<"main.yaml", "a.yaml">>
  /\ last = Idle
  /\ born = EmptyMap
  /\ budget = 0
  /\ UiIdle

(* ConfigMerger._merge_manual(overrides) runs *)
ManualMergeCall ==
  /\ last' = [op |-> "manual"] @@ MergeManual(fs, mergerMain, globOrder, overrides)
  /\ UNCHANGED <<fs, dirs, now, parserMain, mergerMain, snapMain, overrides, globOrder, born, budget>>
  /\ UNCHANGED uiVars

NextManual == ManualMergeCall \/ ParseCall

SpecManual == InitManual /\ [][NextManual]_vars

(* the configuration the fallback rendered *)
MergedCfg == last.text[1].cfg

RootCfg == ReadFile(fs, MainPath).cfg
DefinesKey(p) == Exists(fs, p) /\ ReadFile(fs, p).kind = "map" /\ TheKey \in DOMAIN ReadFile(fs, p).cfg

(* the overrides of the key that are applied: those with '=', not starting  *)
(* with '~', whose key is x, +x or ++x                                      *)
Applied(ov) == HasEq(ov) /\ ~StartsWith(ov, "~") /\ KeyPart(ov) \in {<<TheKey>>, <<"+", TheKey>>, <<"+", "+", TheKey>>}
AppliedAt == {i \in 1..Len(overrides) : Applied(overrides[i])}
OverrideValue(i) == ParseValue(ValuePart(overrides[i])).node

LastApplied == CHOOSE k \in AppliedAt : \A j \in AppliedAt : j <= k

(* C2 as claimed: whatever the modules hold at x, an override x=v (or +x=v, *)
(* ++x=v; of several, the last) makes the merged value at x equal to v.     *)
C2_OverrideIsValue ==
  (last.op = "manual" /\ last.ok /\ AppliedAt # {}) =>
    TheKey \in DOMAIN MergedCfg /\ MergedCfg[TheKey] = OverrideValue(LastApplied)

(* C2 amended: the last applied override x=v decides the merged value at x  *)
(* when v is a scalar other than ???; overrides are merged after every      *)
(* defaults entry.                                                          *)
C2_ScalarOverrideWins ==
  (last.op = "manual" /\ last.ok /\ AppliedAt # {}) =>
    (OverrideValue(LastApplied).t = "s" =>
      TheKey \in DOMAIN MergedCfg /\ MergedCfg[TheKey] = OverrideValue(LastApplied))

(* defaults [a, _self_], both the root and a define x with other values,    *)
(* and a scalar override of x wins over both                                *)
C2_Witness ==
  /\ last.op = "manual" /\ last.ok
  /\ CurrentDefaults = <<StrItem("a"), SelfItem>>
  /\ DefinesKey(MainPath) /\ DefinesKey(APath)
  /\ RootCfg[TheKey] = Mp("p" :> Sc("1")) /\ ReadFile(fs, APath).cfg[TheKey] = Sc("2")
  /\ overrides = <<<<"+", "x", "=", "2">>, <<"x", "=", "1">>>>
  /\ MergedCfg[TheKey] = Sc("1")

NoOverrideApplied == CleanOverrides(overrides) = <<>>
BothDefine == DefinesKey(MainPath) /\ DefinesKey(APath)
AValue == ReadFile(fs, APath).cfg[TheKey]

(* C3 as claimed (the claim's key y is the model's key): with defaults      *)
(* [a, _self_] the merged value is the root document's, with [_self_, a] it *)
(* is module a's.                                                           *)
C3_LaterIsValue ==
  (last.op = "manual" /\ last.ok /\ NoOverrideApplied /\ BothDefine) =>
    /\ CurrentDefaults = <<StrItem("a"), SelfItem>> => MergedCfg[TheKey] = RootCfg[TheKey]
    /\ CurrentDefaults = <<SelfItem, StrItem("a")>> => MergedCfg[TheKey] = AValue

(* C3 amended: the later of the two entries decides the merged value when   *)
(* the value it sets is a scalar other than ???.                            *)
C3_LaterScalarWins ==
  (last.op = "manual" /\ last.ok /\ NoOverrideApplied /\ BothDefine) =>
    /\ (CurrentDefaults = <<StrItem("a"), SelfItem>> /\ RootCfg[TheKey].t = "s")
         => MergedCfg[TheKey] = RootCfg[TheKey]
    /\ (CurrentDefaults = <<SelfItem, StrItem("a")>> /\ AValue.t = "s")
         => MergedCfg[TheKey] = AValue

C3_Witness ==
  /\ last.op = "manual" /\ last.ok /\ NoOverrideApplied
  /\ CurrentDefaults = <<StrItem("a"), SelfItem>>
  /\ BothDefine
  /\ RootCfg[TheKey] = Sc("1") /\ AValue = Sc("2")
  /\ MergedCfg[TheKey] = Sc("1")

(* an entry that names a module file which is not there *)
ItemFile(e) ==
  IF e.k = "str"
  THEN LET segs == Split(e.s) IN ConfigDir \o SubSeq(segs, 1, Len(segs) - 1) \o <<YamlFile(segs[Len(segs)])>>
  ELSE ConfigDir \o Split(Head(e.kv).g) \o <<YamlFile(Head(e.kv).n)>>

NamesMissingModule(e) ==
  /\ (e.k = "str" /\ e.s # "_self_") \/ (e.k = "map" /\ Len(e.kv) = 1 /\ Head(e.kv).ns)
  /\ ~Exists(fs, ItemFile(e))

ListedUnresolved(e) ==
  \E i \in 1..Len(last.modules) :
    /\ GroupName(last.modules[i]) = EntryModule(e)
    /\ ~last.modules[i].resolved
    /\ last.modules[i].path = NoPath

Unlisted(e) == \A i \in 1..Len(last.modules) : last.modules[i].name # e.s

(* the accumulator before and after the i-th entry *)
AccBefore(i) == IF i = 1 THEN EmptyMap ELSE last.trace[i - 1]

MergeUntouched ==
  last.op = "manual" =>
    /\ ~last.exc
    /\ \A i \in 1..Len(CurrentDefaults) :
         NamesMissingModule(CurrentDefaults[i]) =>
           Len(last.trace) >= i /\ last.trace[i] = AccBefore(i)

(* C6 as claimed: an entry of any form (group/name string, bare name,       *)
(* mapping) that names a nonexistent module file is in the module list with *)
(* resolved = false, and adds nothing to the merge.                         *)
C6_AlwaysListed ==
  /\ last.op = "parse" =>
       \A i \in 1..Len(CurrentDefaults) :
         NamesMissingModule(CurrentDefaults[i]) => ListedUnresolved(CurrentDefaults[i])
  /\ MergeUntouched

(* C6 amended: a group/name string or a mapping entry that names a          *)
(* nonexistent file is in the module list with resolved = false; a bare     *)
(* name without a file is left out of the module list; in neither case does *)
(* parse() or the merge raise, and the entry leaves the merge untouched.    *)
C6_ListedOrDropped ==
  /\ last.op = "parse" =>
       \A i \in 1..Len(CurrentDefaults) :
         LET e == CurrentDefaults[i] IN
         NamesMissingModule(e) => IF IsBareName(e) THEN Unlisted(e) ELSE ListedUnresolved(e)
  /\ MergeUntouched

(* a merge over [ _self_, g/n ] with g/n.yaml missing *)
C6_Witness ==
  /\ last.op = "manual" /\ last.ok
  /\ Len(CurrentDefaults) = 2
  /\ CurrentDefaults[1] = SelfItem
  /\ NamesMissingModule(CurrentDefaults[2])
  /\ DefinesKey(MainPath)
  /\ last.trace[2] = last.trace[1]

-----------------------------------------------------------------------------
(* merge() as a whole: the root document may be missing or broken, compose  *)
(* may fail, module files and overrides may be malformed.                   *)

MergeEntries == {SelfItem, StrItem("a"), MapItem(<<Pair("g", "n")>>)}

(* x=1   x={   ~x=1 *)
MergeOverrides == {<<"x", "=", "1">>, <<"x", "=", "{">>, <<"~", "x", "=", "1">>}

InitMerge ==
  /\ \E root \in {Absent, InvalidDoc, ListDoc(FALSE)}
                 \cup {RootDoc(items, TheKey :> Sc("1")) : items \in SeqsUpTo(MergeEntries, MaxMergeDefaults)},
        a \in {Absent, InvalidDoc, ListDoc(FALSE), MapDoc(TheKey :> Sc("2"))} :
       fs = FilesOf((MainPath :> root) @@ (APath :> a))
  /\ overrides \in SeqsUpTo(MergeOverrides, MaxOverrides)
  /\ mergerMain \in {NoPath, MainPath}
  /\ snapMain = NoPath
  /\ globOrder \in {<<"main.yaml", "a.yaml">>, <<"a.yaml", "main.yaml">>}
  /\ dirs = {}
  /\ now = 0
  /\ parserMain = MainPath
  /\ last = Idle
  /\ born = EmptyMap
  /\ budget = 0
  /\ UiIdle

(* ConfigMerger.merge(overrides) is called *)
MergeCall ==
  /\ \E outcome \in HydraOutcomes :
       last' = [op |-> "merge", outcome |-> outcome]
                 @@ Merge(fs, mergerMain, globOrder, overrides, outcome)
  /\ UNCHANGED <<fs, dirs, now, parserMain, mergerMain, snapMain, overrides, globOrder, born, budget>>
  /\ UNCHANGED uiVars

NextMerge == MergeCall

SpecMerge == InitMerge /\ [][NextMerge]_vars

NoRootFound == MergerFindMainConfig(fs, mergerMain, globOrder) = NoPath

(* C1: merge() never raises and returns text; when there is no root         *)
(* document, when compose fails and when the fallback fails too, the text   *)
(* starts with a '#' comment line.                                          *)
C1_MergeNeverRaises ==
  last.op = "merge" =>
    /\ ~last.exc
    /\ Len(last.text) >= 1
    /\ (NoRootFound \/ last.fellBack) => last.text[1].c
    /\ (last.fellBack /\ ~last.manualOk) => \A i \in 2..Len(last.text) : last.text[i].what # "yaml"

(* compose failed and so did the fallback, on a root document that exists *)
C1_Witness ==
  /\ last.op = "merge"
  /\ ~NoRootFound
  /\ last.fellBack /\ ~last.manualOk
  /\ last.text[1].c

ComposeFailed == {"compose_failed", "compose_failed_long"}

(* C14: merge() runs the manual fallback exactly when the compose step      *)
(* fails; when only the resolution of interpolations fails it returns the   *)
(* compose strategy's unresolved text behind a warning comment; the         *)
(* fallback's text starts with a comment line naming the compose failure.   *)
C14_StrategySelection ==
  (last.op = "merge" /\ ~NoRootFound) =>
    /\ last.fellBack <=> last.outcome \in ComposeFailed
    /\ last.outcome = "ok" => last.text = <<Plain("composed yaml")>>
    /\ last.outcome = "resolve_failed" =>
         /\ last.text[1] = Comment("# Warning: some interpolations could not be resolved")
         /\ last.text[Len(last.text)] = Plain("composed yaml, unresolved")
    /\ last.fellBack =>
         /\ last.text[1].c
         /\ last.text[1] \in {FallbackPrefix(o)[1] : o \in ComposeFailed}
         /\ last.text = FallbackPrefix(last.outcome)
                          \o MergeManual(fs, mergerMain, globOrder, overrides).text

(* interpolations could not be resolved on a root that the fallback could   *)
(* have merged: the text is the compose strategy's, behind the warning      *)
C14_Witness ==
  /\ last.op = "merge"
  /\ ~NoRootFound
  /\ last.outcome = "resolve_failed"
  /\ ~last.fellBack
  /\ last.text[1].c
  /\ MergeManual(fs, mergerMain, globOrder, overrides).ok

-----------------------------------------------------------------------------
(* core/snapshot.py *)

TicksPerSecond == 2

(* SnapshotManager.__init__: backup_root *)
BackupRoot == ConfigDir \o <<".hydra_backups">>

(* time.strftime("%Y%m%d_%H%M%S", ...): one text per clock second *)
TimeStr(timestamp) == ToString(timestamp \div TicksPerSecond)

(* snapshot.py 56: f"{time_str}_{tag}" *)
FolderName(timestamp, tag) == TimeStr(timestamp) \o "_" \o tag

(* json.dump(asdict(SnapshotMeta(...))): the manifest.  A relative path is  *)
(* kept as its segments.  numeric: the timestamp is a number.               *)
MetaDoc(tag, timestamp, modules) ==
  [kind |-> "meta", tag |-> tag, numeric |-> TRUE, timestamp |-> timestamp, modules |-> modules]

(* a meta.json that is a JSON object with a text for its timestamp, as      *)
(* another tool or a hand edit leaves it                                    *)
ForeignMeta == [kind |-> "meta", tag |-> "x", numeric |-> FALSE, timestamp |-> 0, modules |-> <<>>]

(* shutil.copy2 *)
Copy2(files, src, dst) == WriteFile(files, dst, ReadFile(files, src))

(* snapshot.py 73-84: the loop over the modules; broken holds the files     *)
(* whose copy fails                                                         *)
RECURSIVE BackupModules(_, _, _, _, _)
BackupModules(files, relative_paths, backup_path, modules, broken) ==
  IF modules = <<>> THEN [fs |-> files, relative_paths |-> relative_paths]
  ELSE LET mod == Head(modules)
           rel_path == RelativeTo(mod.path, ConfigDir)
           copied == /\ mod.resolved
                     /\ mod.path # NoPath
                     /\ IsUnder(mod.path, ConfigDir)
                     /\ Exists(files, mod.path)
                     /\ Normalize(mod.path) \notin broken
       IN BackupModules(IF copied THEN Copy2(files, mod.path, backup_path \o rel_path) ELSE files,
                        IF copied THEN Append(relative_paths, rel_path) ELSE relative_paths,
                        backup_path, Tail(modules), broken)

(* snapshot.py 64-70: the root document is copied first *)
RootCopied(files, main, broken) ==
  main # NoPath /\ Exists(files, main) /\ Normalize(main) \notin broken

BackupRootDoc(files, backup_path, main, broken) ==
  IF RootCopied(files, main, broken)
  THEN [fs |-> Copy2(files, main, backup_path \o <<main[Len(main)]>>),
        relative_paths |-> <<<<main[Len(main)]>>>>]
  ELSE [fs |-> files, relative_paths |-> <<>>]

(* snapshot.py 86-91: the manifest is written, the directory returned *)
SaveMeta(b, ds, backup_path, timestamp, tag) ==
  [raised |-> FALSE,
   fs |-> WriteFile(b.fs, backup_path \o <<"meta.json">>, MetaDoc(tag, timestamp, b.relative_paths)),
   dirs |-> ds \cup {backup_path},
   path |-> backup_path,
   modules |-> b.relative_paths]

(* snapshot.py 60-84: parse, then the copies, root document first *)
BackupAll(root, backup_path, modules, broken) ==
  BackupModules(root.fs, root.relative_paths, backup_path, modules, broken)

(* snapshot.py 57-91: backup_path.mkdir() raises when the directory exists *)
CreateAt(files, ds, backup_path, timestamp, main, tag, broken) ==
  IF backup_path \in ds
  THEN [raised |-> TRUE, fs |-> files, dirs |-> ds, path |-> NoPath, modules |-> <<>>]
  ELSE SaveMeta(BackupAll(BackupRootDoc(files, backup_path, main, broken), backup_path,
                          Parse(files, main), broken),
                ds, backup_path, timestamp, tag)

(* SnapshotManager.create *)
Create(files, ds, timestamp, main, tag, broken) ==
  CreateAt(files, ds \cup {BackupRoot}, BackupRoot \o <<FolderName(timestamp, tag)>>,
           timestamp, main, tag, broken)

(* snapshot.py 98-109: the directories that list_snapshots keeps, in the    *)
(* order iterdir() yields them                                              *)
RECURSIVE Collect(_, _)
Collect(files, order) ==
  IF order = <<>> THEN <<>>
  ELSE LET d == Head(order)
           meta_file == d \o <<"meta.json">>
           rest == Collect(files, Tail(order))
       IN IF Exists(files, meta_file) /\ ReadFile(files, meta_file).kind = "meta"
          THEN <<[path |-> d, data |-> ReadFile(files, meta_file)]>> \o rest
          ELSE rest

(* list.sort(key=timestamp, reverse=True): stable, equal keys keep their order *)
RECURSIVE SortDesc(_)
InsertDesc(sorted, x) ==
  LET k == Cardinality({i \in 1..Len(sorted) : sorted[i].data.timestamp >= x.data.timestamp})
  IN SubSeq(sorted, 1, k) \o <<x>> \o SubSeq(sorted, k + 1, Len(sorted))

SortDesc(snapshots) ==
  IF snapshots = <<>> THEN <<>>
  ELSE InsertDesc(SortDesc(SubSeq(snapshots, 1, Len(snapshots) - 1)), snapshots[Len(snapshots)])

(* SnapshotManager.list_snapshots; comparing a text with a number raises TypeError *)
ListSnapshots(files, ds, order) ==
  IF BackupRoot \notin ds THEN [raised |-> FALSE, snapshots |-> <<>>]
  ELSE LET snapshots == Collect(files, order)
           mixed == \E i, j \in 1..Len(snapshots) : snapshots[i].data.numeric # snapshots[j].data.numeric
       IN IF mixed THEN [raised |-> TRUE, snapshots |-> <<>>]
          ELSE [raised |-> FALSE, snapshots |-> SortDesc(snapshots)]

(* snapshot.py 134-140: the copy loop of restore, from entry i on *)
RECURSIVE RestoreFiles(_, _, _, _, _)
RestoreFiles(files, snapshot_path, rels, i, broken) ==
  IF i > Len(rels) THEN [raised |-> FALSE, fs |-> files]
  ELSE LET source == snapshot_path \o rels[i]
           dest == ConfigDir \o rels[i]
       IN IF ~Exists(files, source) THEN RestoreFiles(files, snapshot_path, rels, i + 1, broken)
          ELSE IF Normalize(source) \in broken THEN [raised |-> TRUE, fs |-> files]
          ELSE RestoreFiles(Copy2(files, source, dest), snapshot_path, rels, i + 1, broken)

(* what restore hands back; mid is the file system once the pre-restore    *)
(* backup is made                                                           *)
Restored(c, why, files) ==
  [raised |-> why # "", why |-> why, fs |-> files, dirs |-> c.dirs, mid |-> c.fs, backup |-> c.path]

(* snapshot.py 132-140 *)
RestoreCopied(c, r) == Restored(c, IF r.raised THEN "OSError" ELSE "", r.fs)

(* snapshot.py 119-140: after the pre-restore backup c *)
RestoreFrom(c, snapshot_path, broken) ==
  IF c.raised THEN Restored(c, "FileExistsError", c.fs)
  ELSE IF ~Exists(c.fs, snapshot_path \o <<"meta.json">>) THEN Restored(c, "FileNotFoundError", c.fs)
  ELSE IF ReadFile(c.fs, snapshot_path \o <<"meta.json">>).kind # "meta"
       THEN Restored(c, "JSONDecodeError", c.fs)
  ELSE RestoreCopied(c, RestoreFiles(c.fs, snapshot_path,
                                     ReadFile(c.fs, snapshot_path \o <<"meta.json">>).modules, 1, broken))

(* restore that looks for the target's manifest before it makes the        *)
(* pre-restore backup: a mutant                                             *)
RestoreCheckFirst(files, ds, timestamp, main, snapshot_path, broken) ==
  IF ~Exists(files, snapshot_path \o <<"meta.json">>)
  THEN [raised |-> TRUE, why |-> "FileNotFoundError", fs |-> files, dirs |-> ds, mid |-> files,
        backup |-> NoPath]
  ELSE RestoreFrom(Create(files, ds, timestamp, main, "pre_restore_backup", broken), snapshot_path, broken)

(* SnapshotManager.restore *)
Restore(files, ds, timestamp, main, snapshot_path, broken) ==
  RestoreFrom(Create(files, ds, timestamp, main, "pre_restore_backup", broken), snapshot_path, broken)

-----------------------------------------------------------------------------
(* The snapshot engine: create, list_snapshots and restore over a live tree *)
(* that is edited between the calls, a clock, and a backup directory that   *)
(* other hands can touch.                                                   *)

MaxSnapDefaults == 2
MaxSnapshots == 2
MaxClock == 2
MaxChanges == 1

OutPath == ConfigDir \o <<"..", "n.yaml">>

(* a file beside the configuration root, in a directory that has the name   *)
(* of a snapshot directory                                                  *)
TwinPath == ConfigDir \o <<"..", "0_t", "main.yaml">>

SnapEntries == {StrItem("g/n"), StrItem("../n"), StrItem("../0_t/main")}
(* the defaults lists of the root document: some entry, none twice *)
SnapDefaults ==
  {l \in SeqsUpTo(SnapEntries, MaxSnapDefaults) :
     l # <<>> /\ \A i, j \in 1..Len(l) : l[i] = l[j] => i = j}
(* the module file a defaults entry names *)
EntryPath(item) ==
  CASE item = StrItem("g/n") -> GNPath
    [] item = StrItem("../n") -> Normalize(OutPath)
    [] OTHER -> Normalize(TwinPath)
LivePaths == {MainPath, GNPath, Normalize(OutPath), Normalize(TwinPath)}
Tags == {"t", "pre_restore_backup"}

SnapDirs(ds) == ds \ {BackupRoot}
IsMeta(p) == p[Len(p)] = "meta.json"
(* the snapshot copies: the files below .hydra_backups other than manifests *)
Copies(files) == {p \in DOMAIN files : IsUnder(p, BackupRoot) /\ ~IsMeta(p)}
Metas(files, ds) == {d \in SnapDirs(ds) : Exists(files, d \o <<"meta.json">>)}

(* no copy fails, or the copy of one file does: a failing copy is an        *)
(* outside event, counted like an outside change                           *)
BrokenChoices(files, left) ==
  {{}} \cup (IF left > 0 THEN {{p} : p \in {q \in DOMAIN files : ~IsMeta(q)}} ELSE {})
Spend(left, broken) == IF broken = {} THEN left ELSE left - 1

(* an edit of a live file: the value at x changes, the rest stays *)
Edited(doc) ==
  MapDoc([k \in DOMAIN doc.cfg |->
            IF k = TheKey THEN (IF doc.cfg[k] = Sc("1") THEN Sc("2") ELSE Sc("1")) ELSE doc.cfg[k]])

(* what create() found in the live tree, per manifest entry, and the        *)
(* manifest it wrote                                                        *)
Birth(files, c) ==
  [live |-> [rel \in {c.modules[i] : i \in 1..Len(c.modules)} |-> ReadFile(files, ConfigDir \o rel)],
   meta |-> ReadFile(c.fs, c.path \o <<"meta.json">>)]

InitSnap ==
  /\ \E items \in SnapDefaults :
       fs = [p \in {MainPath} \cup {EntryPath(items[i]) : i \in 1..Len(items)} |->
               IF p = MainPath THEN RootDoc(items, TheKey :> Sc("1")) ELSE MapDoc(TheKey :> Sc("1"))]
  /\ dirs = {}
  /\ now = 0
  /\ parserMain = MainPath
  /\ mergerMain = MainPath
  /\ snapMain = MainPath
  /\ overrides = <<>>
  /\ globOrder = <<"main.yaml">>
  /\ last = Idle
  /\ born = EmptyMap
  /\ budget = MaxChanges
  /\ UiIdle

(* the state after create() handed back c *)
Created(c, broken) ==
  /\ fs' = c.fs
  /\ dirs' = c.dirs
  /\ budget' = Spend(budget, broken)
  /\ born' = IF c.raised THEN born ELSE (c.path :> Birth(fs, c)) @@ born
  /\ last' = [op |-> "create", raised |-> c.raised, path |-> c.path, modules |-> c.modules,
              before |-> fs, broken |-> broken \cap LivePaths]

(* SnapshotManager.create(tag) is called *)
CreateCall ==
  /\ Cardinality(SnapDirs(dirs)) < MaxSnapshots
  /\ \E tag \in Tags, broken \in BrokenChoices(fs, budget) :
       Created(Create(fs, dirs, now, snapMain, tag, broken), broken)
  /\ UNCHANGED <<now, parserMain, mergerMain, snapMain, overrides, globOrder>>
  /\ UNCHANGED uiVars

(* the state after restore(snapshot_path) handed back r, its pre-restore    *)
(* backup being c                                                           *)
RestoredTo(snapshot_path, r, c, broken) ==
  /\ fs' = r.fs
  /\ dirs' = r.dirs
  /\ budget' = Spend(budget, broken)
  /\ born' = IF c.raised THEN born ELSE (c.path :> Birth(fs, c)) @@ born
  /\ last' = [op |-> "restore", raised |-> r.raised, why |-> r.why, path |-> snapshot_path,
              before |-> fs, mid |-> r.mid, backup |-> r.backup]

(* SnapshotManager.restore(snapshot_path) is called on a listed directory *)
RestoreCall ==
  /\ Cardinality(SnapDirs(dirs)) < MaxSnapshots
  /\ \E snapshot_path \in SnapDirs(dirs), broken \in BrokenChoices(fs, budget) :
       RestoredTo(snapshot_path,
                  Restore(fs, dirs, now, snapMain, snapshot_path, broken),
                  Create(fs, dirs, now, snapMain, "pre_restore_backup", broken),
                  broken)
  /\ UNCHANGED <<now, parserMain, mergerMain, snapMain, overrides, globOrder>>
  /\ UNCHANGED uiVars

(* all orders in which iterdir() can yield the directories ds *)
Orders(ds) == {o \in SeqsUpTo(ds, Cardinality(ds)) : Len(o) = Cardinality(ds) /\ {o[i] : i \in 1..Len(o)} = ds}

(* SnapshotManager.list_snapshots() is called *)
ListCall ==
  /\ \E order \in Orders(SnapDirs(dirs)) :
       LET l == ListSnapshots(fs, dirs, order) IN
         last' = [op |-> "list", raised |-> l.raised, snapshots |-> l.snapshots, order |-> order]
  /\ UNCHANGED <<fs, dirs, now, parserMain, mergerMain, snapMain, overrides, globOrder, born, budget>>
  /\ UNCHANGED uiVars

(* the clock advances *)
Tick ==
  /\ now < MaxClock
  /\ now' = now + 1
  /\ last' = Idle
  /\ UNCHANGED <<fs, dirs, parserMain, mergerMain, snapMain, overrides, globOrder, born, budget>>
  /\ UNCHANGED uiVars

(* the user edits a live file *)
EditLive ==
  /\ budget > 0
  /\ \E p \in LivePaths \cap DOMAIN fs : fs' = WriteFile(fs, p, Edited(fs[p]))
  /\ budget' = budget - 1
  /\ last' = Idle
  /\ UNCHANGED <<dirs, now, parserMain, mergerMain, snapMain, overrides, globOrder, born>>
  /\ UNCHANGED uiVars

(* the user deletes a live file *)
DeleteLive ==
  /\ budget > 0
  /\ \E p \in LivePaths \cap DOMAIN fs : fs' = RemoveFile(fs, p)
  /\ budget' = budget - 1
  /\ last' = Idle
  /\ UNCHANGED <<dirs, now, parserMain, mergerMain, snapMain, overrides, globOrder, born>>
  /\ UNCHANGED uiVars

(* a copy kept below .hydra_backups is deleted from outside *)
DeleteCopy ==
  /\ budget > 0
  /\ \E p \in Copies(fs) : fs' = RemoveFile(fs, p)
  /\ budget' = budget - 1
  /\ last' = Idle
  /\ UNCHANGED <<dirs, now, parserMain, mergerMain, snapMain, overrides, globOrder, born>>
  /\ UNCHANGED uiVars

(* a manifest is deleted, truncated, or rewritten by another tool *)
TamperMeta ==
  /\ budget > 0
  /\ \E d \in Metas(fs, dirs) :
       \/ fs' = RemoveFile(fs, d \o <<"meta.json">>)
       \/ \E doc \in {InvalidDoc, ForeignMeta} : fs' = WriteFile(fs, d \o <<"meta.json">>, doc)
  /\ budget' = budget - 1
  /\ last' = Idle
  /\ UNCHANGED <<dirs, now, parserMain, mergerMain, snapMain, overrides, globOrder, born>>
  /\ UNCHANGED uiVars

(* a snapshot directory is deleted from outside with all it holds *)
RemoveSnapshot ==
  /\ budget > 0
  /\ \E d \in SnapDirs(dirs) :
       /\ fs' = [p \in {q \in DOMAIN fs : ~IsUnder(q, d)} |-> fs[p]]
       /\ dirs' = dirs \ {d}
  /\ budget' = budget - 1
  /\ last' = Idle
  /\ UNCHANGED <<now, parserMain, mergerMain, snapMain, overrides, globOrder, born>>
  /\ UNCHANGED uiVars

NextSnap ==
  \/ CreateCall \/ RestoreCall \/ ListCall \/ Tick
  \/ EditLive \/ DeleteLive \/ DeleteCopy \/ TamperMeta \/ RemoveSnapshot

SpecSnap == InitSnap /\ [][NextSnap]_vars

(* the manifest file of a snapshot directory *)
MetaFile(d) == d \o <<"meta.json">>

(* the manifest of d on disk in files is the one create() wrote *)
Intact(files, d) ==
  d \in DOMAIN born /\ Exists(files, MetaFile(d)) /\ ReadFile(files, MetaFile(d)) = born[d].meta

(* the file at p is the same in both file systems, or in neither *)
SameAt(f1, f2, p) ==
  /\ Exists(f1, p) <=> Exists(f2, p)
  /\ Exists(f1, p) => ReadFile(f1, p) = ReadFile(f2, p)

(* C7: after create(t) made S, any edits of the live files, and a restore(S) *)
(* that returned, every live file listed in S's manifest whose copy          *)
(* restore found at S/<path> holds what it held when create(t) ran, and a    *)
(* listed file without a copy is left as it was.                             *)
C7_RoundTrip ==
  (last.op = "restore" /\ ~last.raised /\ Intact(last.before, last.path)) =>
    \A rel \in DOMAIN born[last.path].live :
      IF Exists(last.mid, last.path \o rel)
      THEN Exists(fs, ConfigDir \o rel) /\ ReadFile(fs, ConfigDir \o rel) = born[last.path].live[rel]
      ELSE SameAt(fs, last.before, ConfigDir \o rel)

(* C8: restore(S) raises only if S's meta.json is missing or unreadable.     *)
C8_RaisesOnlyWithoutManifest ==
  (last.op = "restore" /\ last.raised) =>
    \/ ~Exists(last.before, MetaFile(last.path))
    \/ ReadFile(last.before, MetaFile(last.path)).kind # "meta"

(* what the manifest of create() should list: the root document, then the   *)
(* resolved modules in defaults order, less the files whose copy failed      *)
CopiedPaths(files, main, broken) ==
  LET ok(mod) == mod.resolved /\ Normalize(mod.path) \notin broken
      mods == SelectSeq(Parse(files, main), ok)
      root == IF main # NoPath /\ Exists(files, main) /\ Normalize(main) \notin broken
              THEN <<<<main[Len(main)]>>>> ELSE <<>>
  IN root \o [i \in 1..Len(mods) |-> RelativeTo(mods[i].path, ConfigDir)]

(* C9: when create(tag) returns, the manifest lists exactly the files that   *)
(* were copied, root document first, then the resolved modules in defaults   *)
(* order; every listed path exists inside the new snapshot directory; a      *)
(* file whose copy failed is left out.                                       *)
C9_ManifestAccurate ==
  (last.op = "create" /\ ~last.raised) =>
    /\ last.modules = CopiedPaths(last.before, snapMain, last.broken)
    /\ ReadFile(fs, MetaFile(last.path)).modules = last.modules
    /\ \A i \in 1..Len(last.modules) :
         LET copy == Normalize(last.path \o last.modules[i]) IN
           copy \in DOMAIN fs /\ IsUnder(copy, last.path)

(* the directories below .hydra_backups whose meta.json parses *)
Readable(files, ds) ==
  {d \in SnapDirs(ds) : Exists(files, MetaFile(d)) /\ ReadFile(files, MetaFile(d)).kind = "meta"}

(* C10: list_snapshots() does not raise; it returns one entry, the manifest  *)
(* and the directory path, for exactly the directories with a readable       *)
(* meta.json, by timestamp descending; a snapshot made by create() is in     *)
(* the result as long as nobody outside touched it.                          *)
C10_ListsReadableSnapshots ==
  last.op = "list" =>
    /\ ~last.raised
    /\ Len(last.snapshots) = Cardinality(Readable(fs, dirs))
    /\ {last.snapshots[i].path : i \in 1..Len(last.snapshots)} = Readable(fs, dirs)
    /\ \A i \in 1..Len(last.snapshots) :
         last.snapshots[i].data = ReadFile(fs, MetaFile(last.snapshots[i].path))
    /\ \A i, j \in 1..Len(last.snapshots) :
         i < j => last.snapshots[i].data.timestamp >= last.snapshots[j].data.timestamp
    /\ \A d \in DOMAIN born :
         (d \in dirs /\ Intact(fs, d)) => \E i \in 1..Len(last.snapshots) : last.snapshots[i].path = d

-----------------------------------------------------------------------------
(* The root document as text: update_defaults_item edits it line by line.  *)
(* A line is                                                                *)
(*   form "key"   <key>:                      (group holds the key)         *)
(*   form "str"   <indent>- [override ]<group>/<name><rest>                 *)
(*   form "dict"  <indent>- [override ]<group><sep><name><rest>             *)
(*   form "bare"  <indent>- <name><rest>                                    *)
(*   form "note"  <indent>- [override ]<group>/<name> # ...                 *)
(* where <rest> is trailing white space and <sep> a colon with its spaces.  *)

BaseGroups == {"g", "h"}

KeyLine(key) ==
  [form |-> "key", indent |-> "", override |-> FALSE, group |-> key, sep |-> ":", name |-> "", rest |-> ""]

ItemLine(form, indent, override, group, sep, name, rest) ==
  [form |-> form, indent |-> indent, override |-> override, group |-> group, sep |-> sep,
   name |-> name, rest |-> rest]

StrLine(indent, override, group, name, rest) == ItemLine("str", indent, override, group, "/", name, rest)
DictLine(indent, override, group, sep, name, rest) == ItemLine("dict", indent, override, group, sep, name, rest)
BareLine(indent, name, rest) == ItemLine("bare", indent, FALSE, "", "", name, rest)
NoteLine(indent, group, name) == ItemLine("note", indent, FALSE, group, "/", name, " # note")

TextDoc(lines) == [kind |-> "text", lines |-> lines]

(* a group text that itself starts with "override " *)
HasOverridePrefix(group) == \E b \in BaseGroups : group = "override " \o b
StripOverride(group) == CHOOSE b \in BaseGroups : group = "override " \o b

(* one text, one record: "- override g/n" is the line with the override flag *)
Canon(line) ==
  IF ~line.override /\ HasOverridePrefix(line.group)
  THEN [line EXCEPT !.override = TRUE, !.group = StripOverride(line.group)]
  ELSE line

(* how ^<indent>- (override )?<old.group><separator><old.name>\s*$ matches a    *)
(* line of the given form: "captured" with the optional group taken,          *)
(* "plain" without it, "none" for no match                                    *)
PatMatch(form, line, old) ==
  IF line.form # form \/ line.name # old.name THEN "none"
  ELSE IF line.group = old.group THEN (IF line.override THEN "captured" ELSE "plain")
  ELSE IF line.override /\ ("override " \o line.group) = old.group THEN "plain"
  ELSE "none"

PatStr(line, old) == PatMatch("str", line, old)
PatDict(line, old) == PatMatch("dict", line, old)

(* _repl_str: indent, the captured override, new_group/new_name, rest *)
ReplStr(line, m, new_group, new_name) ==
  Canon([line EXCEPT !.override = (m = "captured"), !.group = new_group, !.name = new_name])

(* _repl_dict: indent, the captured override, "new_group: new_name", rest *)
ReplDict(line, m, new_group, new_name) ==
  Canon([line EXCEPT !.override = (m = "captured"), !.group = new_group, !.sep = ": ", !.name = new_name])

(* pat_str.subn(_repl_str, text): the new text and the number of matches *)
SubnStr(lines, old, new_group, new_name) ==
  [new_text |-> [i \in 1..Len(lines) |->
                   IF PatStr(lines[i], old) # "none"
                   THEN ReplStr(lines[i], PatStr(lines[i], old), new_group, new_name)
                   ELSE lines[i]],
   n |-> Cardinality({i \in 1..Len(lines) : PatStr(lines[i], old) # "none"})]

(* pat_dict.subn(_repl_dict, text) *)
SubnDict(lines, old, new_group, new_name) ==
  [new_text |-> [i \in 1..Len(lines) |->
                   IF PatDict(lines[i], old) # "none"
                   THEN ReplDict(lines[i], PatDict(lines[i], old), new_group, new_name)
                   ELSE lines[i]],
   n |-> Cardinality({i \in 1..Len(lines) : PatDict(lines[i], old) # "none"})]

(* update_defaults_item that writes whatever the second substitution returned *)
UpdateWriteAlways(files, main, s1, s2) ==
  IF s1.n # 0 THEN [raised |-> "none", fs |-> WriteFile(files, main, TextDoc(s1.new_text))]
  ELSE [raised |-> "none", fs |-> WriteFile(files, main, TextDoc(s2.new_text))]

(* update_defaults_item from the two substitutions on: n1, n2, raise or write *)
UpdateWrite(files, main, s1, s2) ==
  IF s1.n # 0 THEN [raised |-> "none", fs |-> WriteFile(files, main, TextDoc(s1.new_text))]
  ELSE IF s2.n # 0 THEN [raised |-> "none", fs |-> WriteFile(files, main, TextDoc(s2.new_text))]
  ELSE [raised |-> "ValueError", fs |-> files]

(* HydraConfigParser.update_defaults_item *)
UpdateDefaultsItem(files, main, old, new_group, new_name) ==
  IF main = NoPath \/ ~Exists(files, main) THEN [raised |-> "FileNotFoundError", fs |-> files]
  ELSE UpdateWrite(files, main,
                   SubnStr(ReadFile(files, main).lines, old, new_group, new_name),
                   SubnDict(ReadFile(files, main).lines, old, new_group, new_name))

-----------------------------------------------------------------------------
(* The defaults editor on its own: update_defaults_item over a root         *)
(* document with a defaults list and a second list below it.                *)

MaxEditLines == 2
MaxNoteLines == 1

EditItemLines ==
  {StrLine("  ", FALSE, "g", "n", ""), StrLine("  ", TRUE, "g", "n", " "),
   DictLine("  ", FALSE, "g", " : ", "n", ""), DictLine("", TRUE, "g", ": ", "n", " "),
   StrLine("  ", FALSE, "g", "m", ""), BareLine("  ", "n", ""), NoteLine("  ", "g", "n")}

EditDocs ==
  {TextDoc(<<KeyLine("defaults")>> \o d \o <<KeyLine("notes")>> \o o) :
     d \in SeqsUpTo(EditItemLines, MaxEditLines), o \in SeqsUpTo(EditItemLines, MaxNoteLines)}

(* the modules the tree hands to the editor, and what the dialog can return *)
EditOld ==
  {ConfigModule("g", "n", NoPath, FALSE), ConfigModule("override g", "n", NoPath, FALSE),
   ConfigModule("g", "m", NoPath, FALSE), ConfigModule("root", "n", NoPath, FALSE)}

EditNew == {<<"h", "n">>, <<"g", "m">>, <<"g", "n">>}

InitEdit ==
  /\ \E doc \in EditDocs : fs = (MainPath :> doc)
  /\ dirs = {}
  /\ now = 0
  /\ parserMain \in {MainPath, NoPath}
  /\ mergerMain = NoPath
  /\ snapMain = NoPath
  /\ overrides = <<>>
  /\ globOrder = <<"main.yaml">>
  /\ last = Idle
  /\ born = EmptyMap
  /\ budget = MaxChanges
  /\ UiIdle

Updated(old, new, r) ==
  /\ fs' = r.fs
  /\ last' = [op |-> "update", old |-> old, new_group |-> new[1], new_name |-> new[2],
              before |-> fs, main |-> parserMain, raised |-> r.raised]

(* HydraConfigParser.update_defaults_item(old, new_group, new_name) is called *)
UpdateCall ==
  /\ \E old \in EditOld, new \in EditNew :
       Updated(old, new, UpdateDefaultsItem(fs, parserMain, old, new[1], new[2]))
  /\ UNCHANGED <<dirs, now, parserMain, mergerMain, snapMain, overrides, globOrder, born, budget>>
  /\ UNCHANGED uiVars

(* the root document is deleted behind the parser's back *)
RootVanishes ==
  /\ budget > 0
  /\ Exists(fs, MainPath)
  /\ fs' = RemoveFile(fs, MainPath)
  /\ budget' = budget - 1
  /\ last' = Idle
  /\ UNCHANGED <<dirs, now, parserMain, mergerMain, snapMain, overrides, globOrder, born>>
  /\ UNCHANGED uiVars

NextEdit == UpdateCall \/ RootVanishes

SpecEdit == InitEdit /\ [][NextEdit]_vars

(* the lines of the root document before and after the last call *)
BeforeLines == IF Exists(last.before, MainPath) THEN ReadFile(last.before, MainPath).lines ELSE <<>>
AfterLines == IF Exists(fs, MainPath) THEN ReadFile(fs, MainPath).lines ELSE <<>>

(* line i is an item of the list under the key "defaults" *)
InDefaultsList(lines, i) ==
  /\ lines[i].form # "key"
  /\ \E k \in 1..(i - 1) :
       /\ lines[k] = KeyLine("defaults")
       /\ \A j \in (k + 1)..(i - 1) : lines[j].form # "key"

(* line i is a defaults entry for old, in the string or the mapping form *)
Encodes(lines, i, old) ==
  /\ InDefaultsList(lines, i)
  /\ PatStr(lines[i], old) # "none" \/ PatDict(lines[i], old) # "none"

(* the rewritten line keeps the indent, the override prefix (unless it was   *)
(* part of the group that is replaced) and the trailing white space         *)
KeepsLayout(b, a, old) ==
  /\ a.indent = b.indent
  /\ a.rest = b.rest
  /\ a.form = b.form
  /\ (b.override /\ ~HasOverridePrefix(old.group)) => a.override

UpdateSucceeded == last.op = "update" /\ last.raised = "none"

(* C11: a successful update_defaults_item changes only lines that encode    *)
(* old.group/old.name in the defaults list, keeps their indent, override    *)
(* prefix and trailing white space, leaves every other line (also an        *)
(* identical-looking one outside the defaults list) as it was and keeps the *)
(* number and order of lines.                                               *)
C11_OnlyEntryLinesChange ==
  (UpdateSucceeded /\ \E e \in 1..Len(BeforeLines) : Encodes(BeforeLines, e, last.old)) =>
    /\ Len(AfterLines) = Len(BeforeLines)
    /\ \A i \in 1..Len(BeforeLines) :
         AfterLines[i] # BeforeLines[i] =>
           /\ Encodes(BeforeLines, i, last.old)
           /\ KeepsLayout(BeforeLines[i], AfterLines[i], last.old)
           /\ AfterLines[i].name = last.new_name

(* some line of the text matches one of the two patterns *)
SomeLineMatches(lines, old) ==
  \E i \in 1..Len(lines) : PatStr(lines[i], old) # "none" \/ PatDict(lines[i], old) # "none"

(* C12: when no line of the root document matches old in the string or the  *)
(* mapping form, update_defaults_item raises and the document is left as it *)
(* was; a call that returns normally has found a line.                      *)
C12_NoMatchRaises ==
  last.op = "update" =>
    /\ ~SomeLineMatches(BeforeLines, last.old) => (last.raised # "none" /\ fs = last.before)
    /\ last.raised # "none" => fs = last.before
    /\ last.raised = "none" => SomeLineMatches(BeforeLines, last.old)

(* the bare entry "- n" is in the list, the tree's module for it is root/n, *)
(* neither pattern takes the line and the call raised ValueError            *)
C12_Witness ==
  /\ last.op = "update"
  /\ last.raised = "ValueError"
  /\ last.old.group = "root"
  /\ last.old.name = "n"
  /\ fs = last.before
  /\ \E i \in 1..Len(BeforeLines) :
       InDefaultsList(BeforeLines, i) /\ BeforeLines[i].form = "bare" /\ BeforeLines[i].name = "n"

-----------------------------------------------------------------------------
(* Root selection: the parser chooses its root document when it is built,   *)
(* the merger each time merge() runs, and the user may choose one from the  *)
(* tree.  Top-level files are written and removed behind their backs.       *)

(* HydraConfigParser._find_main_config *)
ParserFindMainConfig(files, order) == FirstWithDefaults(files, order)

RootNames == {"main.yaml", "a.yaml"}

RootKinds ==
  {InvalidDoc, EmptyDoc, ListDoc(TRUE), ListDoc(FALSE), MapDoc(TheKey :> Sc("1")),
   RootDoc(<<StrItem("a")>>, EmptyMap), RootDoc(<<StrItem("g/n")>>, EmptyMap),
   MapDoc("defaults" :> Mp("a" :> Sc("1"))), MapDoc("defaults" :> Sc("a"))}

InitRoot ==
  /\ \E root \in {Absent} \cup RootKinds, a \in {Absent} \cup RootKinds :
       fs = FilesOf((MainPath :> root) @@ (APath :> a))
  /\ globOrder \in {<<"main.yaml", "a.yaml">>, <<"a.yaml", "main.yaml">>}
  /\ parserMain = ParserFindMainConfig(fs, globOrder)
  /\ mergerMain = NoPath
  /\ snapMain = NoPath
  /\ overrides = <<>>
  /\ dirs = {}
  /\ now = 0
  /\ last = Idle
  /\ born = EmptyMap
  /\ budget = MaxChanges
  /\ UiIdle

(* a top-level file is written by another program *)
TopFileWritten ==
  /\ budget > 0
  /\ \E name \in RootNames, doc \in RootKinds :
       /\ ~(Exists(fs, ConfigDir \o <<name>>) /\ ReadFile(fs, ConfigDir \o <<name>>) = doc)
       /\ fs' = WriteFile(fs, ConfigDir \o <<name>>, doc)
  /\ budget' = budget - 1
  /\ last' = Idle
  /\ UNCHANGED <<dirs, now, parserMain, mergerMain, snapMain, overrides, globOrder, born>>
  /\ UNCHANGED uiVars

(* a top-level file is deleted by another program *)
TopFileRemoved ==
  /\ budget > 0
  /\ \E name \in RootNames :
       /\ Exists(fs, ConfigDir \o <<name>>)
       /\ fs' = RemoveFile(fs, ConfigDir \o <<name>>)
  /\ budget' = budget - 1
  /\ last' = Idle
  /\ UNCHANGED <<dirs, now, parserMain, mergerMain, snapMain, overrides, globOrder, born>>
  /\ UNCHANGED uiVars

(* App.init_core: a new parser and a new merger over the directory *)
InitCore ==
  /\ parserMain' = ParserFindMainConfig(fs, globOrder)
  /\ mergerMain' = NoPath
  /\ last' = [op |-> "init", main |-> ParserFindMainConfig(fs, globOrder)]
  /\ UNCHANGED <<fs, dirs, now, snapMain, overrides, globOrder, born, budget>>
  /\ UNCHANGED uiVars

(* App.on_module_tree_org_file_changed: the user picks a root in the tree *)
OrgFileChanged ==
  /\ \E name \in RootNames :
       /\ Exists(fs, ConfigDir \o <<name>>)
       /\ parserMain' = ConfigDir \o <<name>>
       /\ mergerMain' = ConfigDir \o <<name>>
       /\ last' = [op |-> "switch", modules |-> Parse(fs, ConfigDir \o <<name>>)]
  /\ UNCHANGED <<fs, dirs, now, snapMain, overrides, globOrder, born, budget>>
  /\ UNCHANGED uiVars

(* ConfigMerger.merge(): the root it works on, and its text *)
RootMergeCall ==
  /\ \E outcome \in HydraOutcomes :
       last' = [op |-> "merge", outcome |-> outcome,
                root |-> MergerFindMainConfig(fs, mergerMain, globOrder)]
                 @@ Merge(fs, mergerMain, globOrder, overrides, outcome)
  /\ UNCHANGED <<fs, dirs, now, parserMain, mergerMain, snapMain, overrides, globOrder, born, budget>>
  /\ UNCHANGED uiVars

NextRoot == TopFileWritten \/ TopFileRemoved \/ InitCore \/ OrgFileChanged \/ RootMergeCall \/ ParseCall

SpecRoot == InitRoot /\ [][NextRoot]_vars

(* the root a parser built now, given the same choice in the tree, works on *)
FreshMain == IF mergerMain # NoPath THEN mergerMain ELSE ParserFindMainConfig(fs, globOrder)

(* C13: parse() on the long-lived parser returns what a parser built on the *)
(* present files, with the same explicit root selection, returns.           *)
C13_ParseAsFresh ==
  last.op = "parse" => last.modules = Parse(fs, FreshMain)

(* the top-level names in lexicographic order *)
LexOrder == <<"a.yaml", "main.yaml">>
LexFirst(names) == LexOrder[CHOOSE i \in 1..Len(LexOrder) :
                              LexOrder[i] \in names /\ \A j \in 1..(i - 1) : LexOrder[j] \notin names]

(* the file's parsed content is a mapping with the key defaults *)
Qualifies(files, name) ==
  /\ Exists(files, ConfigDir \o <<name>>)
  /\ ReadFile(files, ConfigDir \o <<name>>).kind = "map"
  /\ "defaults" \in DOMAIN ReadFile(files, ConfigDir \o <<name>>).cfg

Qualifying(files) == {n \in RootNames : Qualifies(files, n)}
Present(files) == {n \in RootNames : Exists(files, ConfigDir \o <<n>>)}

ChosenAsStated(files, r) ==
  IF Qualifying(files) # {} THEN r = ConfigDir \o <<LexFirst(Qualifying(files))>>
  ELSE IF Present(files) # {} THEN \E n \in Present(files) : r = ConfigDir \o <<n>>
  ELSE r = NoPath

(* C20: with no root specified, the parser (when built) and the merger (in  *)
(* merge) select the lexicographically first top-level YAML file whose      *)
(* content is a mapping with a defaults key; if there is none, a top-level  *)
(* YAML file that exists; if there is no file, none.                        *)
C20_RootAutoSelection ==
  /\ last.op = "init" => ChosenAsStated(fs, last.main)
  /\ (last.op = "merge" /\ mergerMain = NoPath) => ChosenAsStated(fs, last.root)

(* the root document gives parse() no list of defaults: no file, a text     *)
(* that does not parse, a content that is not a mapping, no defaults key,   *)
(* or a defaults value that is not a sequence                               *)
NoDefaultsList(files, main) ==
  \/ main = NoPath
  \/ ~Exists(files, main)
  \/ ReadFile(files, main).kind # "map"
  \/ "defaults" \notin DOMAIN ReadFile(files, main).cfg
  \/ ReadFile(files, main).cfg["defaults"].t # "l"

(* C19: parse() returns the empty module list when the root document does  *)
(* not parse, is not a mapping, has no defaults key, or has a defaults      *)
(* value that is not a sequence.                                            *)
C19_EmptyWithoutDefaultsList ==
  (last.op = "parse" /\ NoDefaultsList(fs, parserMain)) => last.modules = <<>>

-----------------------------------------------------------------------------
(* The manual merge and the root document's own keys                        *)

HasSelf(items) == \E i \in 1..Len(items) : items[i] = SelfItem

(* C15: with a non-empty defaults list that has no _self_ entry, the manual *)
(* merge still merges the root document's own keys, after all entries: the  *)
(* root's key is in the result, and a scalar the root sets there wins.      *)
C15_RootKeysMergedLast ==
  (/\ last.op = "manual" /\ last.ok /\ NoOverrideApplied
   /\ CurrentDefaults # <<>> /\ ~HasSelf(CurrentDefaults)
   /\ DefinesKey(MainPath)) =>
    /\ TheKey \in DOMAIN MergedCfg
    /\ RootCfg[TheKey].t = "s" => MergedCfg[TheKey] = RootCfg[TheKey]

(* C16: _self_ merges the root's keys other than defaults: with a non-empty *)
(* defaults list the rendered result has no top-level key defaults.         *)
C16_NoDefaultsKey ==
  (last.op = "manual" /\ last.ok /\ CurrentDefaults # <<>>) => "defaults" \notin DOMAIN MergedCfg

(* the defaults list with every string g/n written as the mapping {g: n} *)
AsMapping(items) ==
  [i \in 1..Len(items) |-> IF items[i] = StrItem("g/n") THEN MapItem(<<Pair("g", "n")>>) ELSE items[i]]

(* the root document's keys other than defaults *)
RootBody == [k \in DOMAIN RootCfg \ {"defaults"} |-> RootCfg[k]]

(* what the manual merge renders when the defaults list is items *)
TextWith(items) ==
  MergeManual(WriteFile(fs, MainPath, RootDoc(items, RootBody)), mergerMain, globOrder, overrides).text

(* a rendered configuration without the defaults list itself *)
OwnKeys(cfg) == [k \in DOMAIN cfg \ {"defaults"} |-> cfg[k]]

HasGN(items) == \E i \in 1..Len(items) : items[i] = StrItem("g/n")

(* C17: in the manual merge the string entry g/n and the mapping entry      *)
(* {g: n} give the same merged keys, the module's content under the key g.  *)
C17_StringAsMapping ==
  (last.op = "manual" /\ last.ok /\ HasGN(CurrentDefaults)) =>
    /\ OwnKeys(MergedCfg) = OwnKeys(TextWith(AsMapping(CurrentDefaults))[1].cfg)
    /\ Exists(fs, GNPath) => "g" \in DOMAIN MergedCfg

-----------------------------------------------------------------------------
(* The manual merge and the spelling of overrides                           *)

(* what the manual merge renders for the override list ovs *)
TextFor(ovs) == MergeManual(fs, mergerMain, globOrder, ovs).text

PlusPrefixes == {<<>>, <<"+">>, <<"+", "+">>}

(* the key of an override without its leading plus signs *)
RECURSIVE BareKey(_)
BareKey(key) == IF key # <<>> /\ Head(key) = "+" THEN BareKey(Tail(key)) ELSE key

(* an override the normalization drops *)
Dropped(ov) == StartsWith(ov, "~") \/ ~HasEq(ov)
Kept(ov) == ~Dropped(ov)

(* the same assignment spelled k=v, +k=v and ++k=v *)
Spellings(ov) == {pre \o BareKey(KeyPart(ov)) \o <<"=">> \o ValuePart(ov) : pre \in PlusPrefixes}

(* overrides that are dropped: ~x=2, ~x, x *)
DroppedOverrides == {<<"~", "x", "=", "2">>, <<"~", "x">>, <<"x">>}

InsertAt(ovs, i, ov) == SubSeq(ovs, 1, i - 1) \o <<ov>> \o SubSeq(ovs, i, Len(ovs))

(* C18: in the manual merge k=v, +k=v and ++k=v give the same result, and   *)
(* overrides starting with '~' or without '=' change nothing: a list of     *)
(* such overrides only gives the result of the empty list.                  *)
C18_OverrideNormalization ==
  last.op = "manual" =>
    /\ \A i \in 1..Len(overrides) :
         Kept(overrides[i]) =>
           \A s \in Spellings(overrides[i]) : TextFor([overrides EXCEPT ![i] = s]) = last.text
    /\ TextFor(SelectSeq(overrides, Kept)) = last.text
    /\ \A i \in 1..(Len(overrides) + 1), d \in DroppedOverrides :
         TextFor(InsertAt(overrides, i, d)) = last.text
    /\ (\A i \in 1..Len(overrides) : Dropped(overrides[i])) => last.text = TextFor(<<>>)

(* ++x={q: 1} was applied to a root that sets x, next to a dropped ~x=2 *)
C18_Witness ==
  /\ last.op = "manual" /\ last.ok
  /\ overrides = <<<<"+", "+", "x", "=", "{q: 1}">>, <<"~", "x", "=", "2">>>>
  /\ DefinesKey(MainPath)
  /\ TheKey \in DOMAIN MergedCfg
  /\ last.text = TextFor(<<<<"x", "=", "{q: 1}">>>>)
  /\ last.text # TextFor(<<>>)

-----------------------------------------------------------------------------
(* The defaults editor and several lines for one entry                      *)

(* C21: after a successful update_defaults_item with a new group/name that  *)
(* differs from the old one, no line of the root document encodes           *)
(* old.group/old.name any more, in the string or in the mapping form.       *)
C21_AllMatchingLinesRewritten ==
  (UpdateSucceeded /\ <<last.new_group, last.new_name>> # <<last.old.group, last.old.name>>) =>
    ~SomeLineMatches(AfterLines, last.old)

-----------------------------------------------------------------------------
(* restore() and its pre-restore backup                                     *)

(* no live configuration file differs between the two file systems *)
LiveSame(f1, f2) == \A p \in LivePaths : SameAt(f1, f2, p)

(* d is a snapshot in files that was not there in old: a manifest with the  *)
(* tag pre_restore_backup and a copy for every path it lists                *)
FreshBackup(files, old, d) ==
  /\ d # NoPath
  /\ ~Exists(old, MetaFile(d))
  /\ Exists(files, MetaFile(d))
  /\ ReadFile(files, MetaFile(d)).kind = "meta"
  /\ ReadFile(files, MetaFile(d)).tag = "pre_restore_backup"
  /\ \A i \in 1..Len(ReadFile(files, MetaFile(d)).modules) :
       Exists(files, d \o ReadFile(files, MetaFile(d)).modules[i])

(* restore() got as far as looking for the target's manifest *)
ManifestChecked == last.op = "restore" /\ last.why # "FileExistsError"

Overwritten ==
  {rel \in {ReadFile(last.mid, MetaFile(last.path)).modules[i] :
              i \in 1..Len(ReadFile(last.mid, MetaFile(last.path)).modules)} :
     Exists(last.mid, last.path \o rel) /\ Exists(last.before, ConfigDir \o rel)}

(* C23: every live file that a completed restore(S) wrote over is in the    *)
(* pre_restore_backup snapshot of that call with the content it had before  *)
(* the call, whatever S's manifest lists.                                   *)
C23_OverwrittenIsBackedUp ==
  (last.op = "restore" /\ ~last.raised) =>
    \A rel \in Overwritten :
      /\ Exists(fs, last.backup \o rel)
      /\ ReadFile(fs, last.backup \o rel) = ReadFile(last.before, ConfigDir \o rel)

(* the snapshot directories that held a manifest before the last call *)
SnapshotsBefore == {d \in SnapDirs(dirs) : Exists(last.before, MetaFile(d))}

(* C24: create(tag) and restore(path) leave every file and the meta.json    *)
(* of a snapshot directory that existed before the call as they were, also  *)
(* when the new directory's name collides with an existing one.             *)
C24_SnapshotsImmutable ==
  last.op \in {"create", "restore"} =>
    \A d \in SnapshotsBefore :
      \A p \in DOMAIN last.before : IsUnder(p, d) => SameAt(fs, last.before, p)


(* ---------------------------------------------------------------------- *)
(* The application: one parser, one merger and one snapshot manager over   *)
(* the same directory, driven by the handlers of HydraViewer                *)
(* ---------------------------------------------------------------------- *)

(* app.py 325-331: action_reload_all hands the parser's root to the merger  *)
(* when the parser has one                                                  *)
ReloadedMain(parser_main, merger_main) ==
  IF parser_main # NoPath THEN parser_main ELSE merger_main

(* the state after HydraViewer.__init__ and on_mount: init_core, then       *)
(* action_reload_all.  SnapshotManager.__init__ builds a parser of its own  *)
InitApp ==
  /\ \E root \in {Absent} \cup RootKinds, a \in {Absent} \cup RootKinds :
       fs = FilesOf((MainPath :> root) @@ (APath :> a))
  /\ globOrder \in {<<"main.yaml", "a.yaml">>, <<"a.yaml", "main.yaml">>}
  /\ parserMain = ParserFindMainConfig(fs, globOrder)
  /\ mergerMain = ReloadedMain(ParserFindMainConfig(fs, globOrder), NoPath)
  /\ snapMain = ParserFindMainConfig(fs, globOrder)
  /\ overrides = <<>>
  /\ dirs = {}
  /\ now = 0
  /\ last = Idle
  /\ born = EmptyMap
  /\ budget = MaxChanges
  /\ UiIdle

(* HydraViewer.action_open_directory on the same directory: init_core,      *)
(* then action_reload_all                                                   *)
OpenDirectory ==
  /\ parserMain' = ParserFindMainConfig(fs, globOrder)
  /\ mergerMain' = ReloadedMain(ParserFindMainConfig(fs, globOrder), NoPath)
  /\ snapMain' = ParserFindMainConfig(fs, globOrder)
  /\ last' = [op |-> "open", main |-> ParserFindMainConfig(fs, globOrder),
              root |-> MergerFindMainConfig(fs, mergerMain', globOrder)]
  /\ UNCHANGED <<fs, dirs, now, overrides, globOrder, born, budget>>
  /\ UNCHANGED uiVars

(* HydraViewer.on_module_tree_org_file_changed: a root picked in the list   *)
(* of the tree (an existing file), or a file name typed into its input      *)
(* (any name); the handler ends with the preview                            *)
SwitchOrgFile ==
  /\ \E name \in RootNames, typed \in BOOLEAN :
       /\ typed \/ Exists(fs, ConfigDir \o <<name>>)
       /\ parserMain' = ConfigDir \o <<name>>
       /\ mergerMain' = ConfigDir \o <<name>>
       /\ last' = [op |-> "switch", typed |-> typed, main |-> ConfigDir \o <<name>>,
                   root |-> MergerFindMainConfig(fs, ConfigDir \o <<name>>, globOrder)]
  /\ UNCHANGED <<fs, dirs, now, snapMain, overrides, globOrder, born, budget>>
  /\ UNCHANGED uiVars

(* HydraViewer.action_reload_all: the merger takes the parser's root, the   *)
(* modules are parsed and the preview merged                                *)
ReloadAll ==
  /\ mergerMain' = ReloadedMain(parserMain, mergerMain)
  /\ last' = [op |-> "reload", modules |-> Parse(fs, parserMain),
              root |-> MergerFindMainConfig(fs, mergerMain', globOrder)]
  /\ UNCHANGED <<fs, dirs, now, parserMain, snapMain, overrides, globOrder, born, budget>>
  /\ UNCHANGED uiVars

(* HydraViewer.action_create_snapshot: snapshot_manager.create(tag) *)
CreateSnapshot ==
  /\ Cardinality(SnapDirs(dirs)) < MaxSnapshots
  /\ Created(Create(fs, dirs, now, snapMain, "t", {}), {})
  /\ UNCHANGED <<now, parserMain, mergerMain, snapMain, overrides, globOrder>>
  /\ UNCHANGED uiVars

NextApp ==
  \/ TopFileWritten
  \/ TopFileRemoved
  \/ OpenDirectory
  \/ SwitchOrgFile
  \/ ReloadAll
  \/ CreateSnapshot
  \/ RootMergeCall

SpecApp == InitApp /\ [][NextApp]_vars

(* the name of a root document below the configuration root *)
RootRel(main) == <<main[Len(main)]>>

(* the snapshot just written holds a copy of the document at main *)
HoldsRootOf(main) ==
  /\ \E i \in 1..Len(last.modules) : last.modules[i] = RootRel(main)
  /\ Exists(fs, last.path \o RootRel(main))
  /\ ReadFile(fs, last.path \o RootRel(main)) = ReadFile(last.before, main)

SnapshotTaken == last.op = "create" /\ ~last.raised

(* C25: a snapshot taken while the resolver's selected root p is a file on  *)
(* disk holds a copy of p, whatever root the snapshot engine detected for   *)
(* itself when it was built                                                 *)
C25_CreateUsesSelectedRoot ==
  (SnapshotTaken /\ parserMain # NoPath /\ Exists(last.before, parserMain)) =>
    HoldsRootOf(parserMain)

(* the handlers that end with the preview, and merge() itself: last.root    *)
(* is the file ConfigMerger._find_main_config hands to the merge            *)
PreviewMerged == last.op \in {"open", "switch", "reload", "merge"}

(* C26: whenever the preview has been merged, the root the merger used is   *)
(* the file the parser holds as main_config_path                            *)
C26_RootAgreement == PreviewMerged => last.root = parserMain

(* the files that differ between two file systems: written or rewritten *)
WrittenFiles(before, after) ==
  {p \in DOMAIN after : p \notin DOMAIN before \/ after[p] # before[p]}

(* C27: every file that create(tag) wrote lies inside the snapshot          *)
(* directory it made; a create that raised wrote nothing                    *)
C27_CreateContained ==
  last.op = "create" =>
    \A p \in WrittenFiles(last.before, fs) : ~last.raised /\ IsUnder(p, last.path)

-----------------------------------------------------------------------------
(* utils/path_utils.py: find_config_root, the upward search for the         *)
(* configuration root.  The directory "/" is the empty path.                *)

(* Path.parent: the parent of "/" is "/" *)
Parent(p) == IF p = <<>> THEN <<>> ELSE SubSeq(p, 1, Len(p) - 1)

(* current != root, with current a Path and root = current.root a str:      *)
(* PurePath.__eq__ gives NotImplemented for a str, so the two are never     *)
(* equal, whatever the directory                                            *)
PathEqualsStr(p, s) == FALSE

(* current.glob("*.yaml") *)
YamlFilesIn(files, dir) ==
  {p \in DOMAIN files : Len(p) = Len(dir) + 1 /\ Parent(p) = dir}

(* path_utils.py 53-55: the document is a mapping whose "defaults" is a list; *)
(* a document that does not load is skipped                                 *)
HasDefaultsList(doc) ==
  doc.kind = "map" /\ "defaults" \in DOMAIN doc.cfg /\ doc.cfg["defaults"].t = "l"

HoldsRoot(files, dir) == \E p \in YamlFilesIn(files, dir) : HasDefaultsList(files[p])

Found(dir) == [done |-> TRUE, found |-> TRUE, path |-> dir]
NotFound == [done |-> TRUE, found |-> FALSE, path |-> <<>>]

(* the files the search can meet: one in "/", one in /home, two in the      *)
(* directory /home/cfg                                                      *)
TopYaml == <<"r.yaml">>
HomeYaml == <<"home", "h.yaml">>
WalkKinds ==
  {Absent, RootDoc(<<>>, EmptyMap), MapDoc(TheKey :> Sc("1")), MapDoc("defaults" :> Sc("a")),
   ListDoc(TRUE)}
WalkStarts ==
  {ConfigDir, MainPath, ConfigDir \o <<"g">>, ConfigDir \o <<"g", "..">>, <<"home">>}

(* find_config_root(start_path) has been called *)
InitWalk ==
  /\ \E top \in WalkKinds, home \in WalkKinds, main \in WalkKinds, a \in {Absent, ListDoc(TRUE)} :
       fs = FilesOf((TopYaml :> top) @@ (HomeYaml :> home) @@ (MainPath :> main) @@ (APath :> a))
  /\ \E start_path \in WalkStarts :
       /\ current = start_path
       /\ last = [op |-> "find_config_root", start |-> start_path]
  /\ walk_pc = "start"
  /\ returned = [done |-> FALSE]
  /\ dirs = {}
  /\ now = 0
  /\ parserMain = NoPath
  /\ mergerMain = NoPath
  /\ snapMain = NoPath
  /\ overrides = <<>>
  /\ globOrder = <<"main.yaml", "a.yaml">>
  /\ born = EmptyMap
  /\ budget = 0
  /\ suppress_watch = FALSE
  /\ action_pc = [step |-> "idle"]
  /\ unseen = {}
  /\ tree = {}
  /\ EditorIdle

engineVars == <<fs, dirs, now, parserMain, mergerMain, snapMain, overrides, globOrder, last, born, budget>>

(* path_utils.py 39-43: resolve(), and the parent of a file *)
WalkStart ==
  /\ walk_pc = "start"
  /\ current' = IF Exists(fs, current) THEN Parent(Normalize(current)) ELSE Normalize(current)
  /\ walk_pc' = "test"
  /\ UNCHANGED <<engineVars, browserVars, editorVars, returned>>

(* path_utils.py 45: the test of the while loop; 61: return None *)
WalkTest ==
  /\ walk_pc = "test"
  /\ IF PathEqualsStr(current, "/")
     THEN walk_pc' = "done" /\ returned' = NotFound
     ELSE walk_pc' = "body" /\ returned' = returned
  /\ UNCHANGED <<engineVars, browserVars, editorVars, current>>

(* path_utils.py 50-59: the body of the loop, one directory *)
WalkBody ==
  /\ walk_pc = "body"
  /\ IF HoldsRoot(fs, current)
     THEN walk_pc' = "done" /\ returned' = Found(current) /\ current' = current
     ELSE walk_pc' = "test" /\ returned' = returned /\ current' = Parent(current)
  /\ UNCHANGED <<engineVars, browserVars, editorVars>>

NextWalk == WalkStart \/ WalkTest \/ WalkBody

SpecWalk == InitWalk /\ [][NextWalk]_vars

(* the function, once called, keeps running *)
SpecWalkFair == SpecWalk /\ WF_vars(NextWalk)

(* the directory the search starts in *)
StartDir ==
  IF Exists(fs, last.start) THEN Parent(Normalize(last.start)) ELSE Normalize(last.start)

(* the ancestors of a directory, itself included, up to "/" *)
Ancestors(dir) == {SubSeq(dir, 1, n) : n \in 0..Len(dir)}

(* the nearest ancestor that holds a root document *)
NearestRoot ==
  LET holding == {d \in Ancestors(StartDir) : HoldsRoot(fs, d)}
  IN IF holding = {} THEN NotFound
     ELSE Found(CHOOSE d \in holding : \A e \in holding : Len(e) <= Len(d))

(* C28: find_config_root returns, and what it returns is the nearest        *)
(* ancestor directory holding a YAML mapping with a defaults list, or None  *)
(* when no ancestor up to "/" holds one                                     *)
C28_FindRootTerminates ==
  /\ <>(returned.done)
  /\ [](returned.done => returned = NearestRoot)

-----------------------------------------------------------------------------
(* widgets/file_browser.py: the file browser, its own file actions and its  *)
(* background watch loop.  The action handlers are synchronous: they run    *)
(* on the event loop from start to end, and the watch loop, a coroutine on  *)
(* the same loop, runs only between them.  The watcher of awatch() gathers  *)
(* the changes on disk on its own, at any time.                             *)

(* FileBrowser._build_tree: the files below the configuration root *)
Listing(files) == {p \in DOMAIN files : IsUnder(p, ConfigDir)}

BrowserNames == {"main.yaml", "a.yaml"}
BrowserDocs == {Absent, EmptyDoc, MapDoc(TheKey :> Sc("1"))}

(* the browser is mounted: on_mount has built the tree and started the      *)
(* watch loop                                                               *)
InitBrowser ==
  /\ \E root \in BrowserDocs, a \in BrowserDocs :
       fs = FilesOf((MainPath :> root) @@ (APath :> a))
  /\ tree = Listing(fs)
  /\ suppress_watch = FALSE
  /\ action_pc = [step |-> "idle"]
  /\ unseen = {}
  /\ last = Idle
  /\ budget = MaxChanges
  /\ dirs = {}
  /\ now = 0
  /\ parserMain = NoPath
  /\ mergerMain = NoPath
  /\ snapMain = NoPath
  /\ overrides = <<>>
  /\ globOrder = <<"main.yaml", "a.yaml">>
  /\ born = EmptyMap
  /\ current = <<>>
  /\ walk_pc = "idle"
  /\ returned = [done |-> FALSE]
  /\ EditorIdle

restVars == <<dirs, now, parserMain, mergerMain, snapMain, overrides, globOrder, born, walkVars, editorVars>>

(* handle_new_file, handle_delete, handle_rename up to the assignment       *)
(* self._suppress_watch = True: new and rename return early when the        *)
(* destination exists; delete and rename work on a file of the tree         *)
OwnActionBegins ==
  /\ action_pc.step = "idle"
  /\ \E kind \in {"new", "delete", "rename"}, name \in BrowserNames, dest \in BrowserNames :
       /\ kind \in {"delete", "rename"} => ConfigDir \o <<name>> \in tree
       /\ kind = "new" => dest = name /\ ~Exists(fs, ConfigDir \o <<name>>)
       /\ kind = "delete" => dest = name
       /\ kind = "rename" => dest # name /\ ~Exists(fs, ConfigDir \o <<dest>>)
       /\ action_pc' = [step |-> "try", kind |-> kind,
                        target |-> ConfigDir \o <<name>>, dest |-> ConfigDir \o <<dest>>]
  /\ suppress_watch' = TRUE
  /\ UNCHANGED <<fs, unseen, tree, last, budget, restVars>>

(* write_text(""), unlink(), rename(dest) *)
FileOp(files, a) ==
  CASE a.kind = "new" -> WriteFile(files, a.target, EmptyDoc)
    [] a.kind = "delete" -> RemoveFile(files, a.target)
    [] OTHER -> WriteFile(RemoveFile(files, a.target), a.dest, ReadFile(files, a.target))

(* unlink() and rename() raise when the file is gone *)
Raises(files, a) == a.kind \in {"delete", "rename"} /\ ~Exists(files, a.target)

(* the file operation inside the try block: it changes the disk, which the  *)
(* watcher notes, or it raises                                              *)
OwnActionChanges ==
  /\ action_pc.step = "try"
  /\ IF Raises(fs, action_pc)
     THEN /\ action_pc' = [action_pc EXCEPT !.step = "raised"]
          /\ UNCHANGED <<fs, unseen>>
     ELSE /\ action_pc' = [action_pc EXCEPT !.step = "finally"]
          /\ fs' = FileOp(fs, action_pc)
          /\ unseen' = unseen \cup {"own"}
  /\ UNCHANGED <<suppress_watch, tree, last, budget, restVars>>

(* the finally block, then refresh_tree() and post_message(FileListChanged) *)
(* when nothing was raised                                                  *)
OwnActionEnds ==
  /\ action_pc.step \in {"finally", "raised"}
  /\ suppress_watch' = FALSE
  /\ tree' = IF action_pc.step = "finally" THEN Listing(fs) ELSE tree
  /\ last' = [op |-> "action", kind |-> action_pc.kind, raised |-> action_pc.step = "raised"]
  /\ action_pc' = [step |-> "idle"]
  /\ UNCHANGED <<fs, unseen, budget, restVars>>

(* another program writes or deletes a file below the configuration root:   *)
(* at any time, also while a handler runs                                   *)
OutsideChange ==
  /\ budget > 0
  /\ \E name \in BrowserNames, doc \in BrowserDocs :
       /\ IF doc = Absent THEN Exists(fs, ConfigDir \o <<name>>)
          ELSE ~(Exists(fs, ConfigDir \o <<name>>) /\ ReadFile(fs, ConfigDir \o <<name>>) = doc)
       /\ fs' = IF doc = Absent THEN RemoveFile(fs, ConfigDir \o <<name>>)
                ELSE WriteFile(fs, ConfigDir \o <<name>>, doc)
  /\ unseen' = unseen \cup {"outside"}
  /\ budget' = budget - 1
  /\ UNCHANGED <<suppress_watch, action_pc, tree, last, restVars>>

(* FileBrowser._watch_loop, one turn: awatch() yields the changes gathered  *)
(* so far; the coroutine runs when no handler holds the event loop          *)
WatchLoop ==
  /\ action_pc.step = "idle"
  /\ unseen # {}
  /\ unseen' = {}
  /\ tree' = IF suppress_watch THEN tree ELSE Listing(fs)
  /\ last' = [op |-> "watch", changes |-> unseen, refreshed |-> ~suppress_watch]
  /\ UNCHANGED <<fs, suppress_watch, action_pc, budget, restVars>>

NextBrowser == OwnActionBegins \/ OwnActionChanges \/ OwnActionEnds \/ OutsideChange \/ WatchLoop

SpecBrowser == InitBrowser /\ [][NextBrowser]_vars

(* C29: a turn of the watch loop whose changes are all the browser's own    *)
(* does not refresh the tree or post FileListChanged; and _suppress_watch   *)
(* is False whenever no own action is executing                             *)
C29_OwnChangesSuppressed ==
  /\ (last.op = "watch" /\ last.changes = {"own"}) => ~last.refreshed
  /\ action_pc.step = "idle" => ~suppress_watch

-----------------------------------------------------------------------------
(* app.py 237-252: the debounced auto-save of the editor.  Time moves in    *)
(* ticks of 250 ms; a timer set for 0.5 s fires DebounceTicks ticks after   *)
(* set_timer.  Handlers and timer callbacks are synchronous and run one at  *)
(* a time on the event loop.                                                *)

DebounceTicks == 2
MaxEdits == 4

(* self._debounce_timer is None *)
NoTimer == {}

(* Timer.stop() of the timer held, if any, then set_timer(0.5, ...): the    *)
(* timers running afterwards, the new one being timer                       *)
RestartedNoStop(running, held, timer) == (timer :> DebounceTicks) @@ running

Restarted(running, held, timer) ==
  (timer :> DebounceTicks) @@ [t \in (DOMAIN running) \ held |-> running[t]]

EditorDocs == {MapDoc(TheKey :> Sc("1")), MapDoc(TheKey :> Sc("2"))}

(* a directory is loaded and its root document is open in the editor *)
InitEditor ==
  /\ \E doc \in EditorDocs : fs = FilesOf(MainPath :> doc) /\ text = doc
  /\ debounce_timer = NoTimer
  /\ timers = <<>>
  /\ quiet = 0
  /\ unsaved = 0
  /\ budget = MaxEdits
  /\ last = Idle
  /\ dirs = {}
  /\ now = 0
  /\ parserMain = MainPath
  /\ mergerMain = MainPath
  /\ snapMain = MainPath
  /\ overrides = <<>>
  /\ globOrder = <<"main.yaml">>
  /\ born = EmptyMap
  /\ current = <<>>
  /\ walk_pc = "idle"
  /\ returned = [done |-> FALSE]
  /\ suppress_watch = FALSE
  /\ action_pc = [step |-> "idle"]
  /\ unseen = {}
  /\ tree = {}

stillVars ==
  <<dirs, now, parserMain, mergerMain, snapMain, overrides, globOrder, born, walkVars, browserVars>>

(* HydraViewer.on_text_area_changed: the text has changed (self.parser is   *)
(* set, a directory being loaded); the timer held is stopped, a new one set *)
TextAreaChanged ==
  /\ budget > 0
  /\ budget' = budget - 1
  /\ text' = Edited(text)
  /\ timers' = Restarted(timers, debounce_timer, MaxEdits - budget + 1)
  /\ debounce_timer' = {MaxEdits - budget + 1}
  /\ quiet' = 0
  /\ unsaved' = unsaved + 1
  /\ last' = [op |-> "changed"]
  /\ UNCHANGED <<fs, stillVars>>

(* 250 ms pass; a timer that is due fires before more time passes *)
TimePasses ==
  /\ \A t \in DOMAIN timers : timers[t] > 0
  /\ timers # <<>> \/ quiet < DebounceTicks
  /\ timers' = [t \in DOMAIN timers |-> timers[t] - 1]
  /\ quiet' = IF quiet < DebounceTicks THEN quiet + 1 ELSE quiet
  /\ UNCHANGED <<fs, budget, last, debounce_timer, text, unsaved, stillVars>>

(* HydraViewer._auto_save_and_refresh, the callback of a timer that is due: *)
(* the text of the editor is saved and the preview merged                   *)
AutoSaveAndRefresh ==
  /\ \E t \in DOMAIN timers :
       /\ timers[t] = 0
       /\ timers' = [u \in (DOMAIN timers) \ {t} |-> timers[u]]
  /\ debounce_timer' = NoTimer
  /\ fs' = WriteFile(fs, MainPath, text)
  /\ unsaved' = 0
  /\ last' = [op |-> "auto_save", quiet |-> quiet, unsaved |-> unsaved,
              preview |-> MergerFindMainConfig(fs', mergerMain, globOrder)]
  /\ UNCHANGED <<budget, text, quiet, stillVars>>

(* HydraViewer.action_save_file: the user saves; the timer is left alone *)
ActionSaveFile ==
  /\ ReadFile(fs, MainPath) # text
  /\ fs' = WriteFile(fs, MainPath, text)
  /\ last' = [op |-> "save", preview |-> MergerFindMainConfig(fs', mergerMain, globOrder)]
  /\ UNCHANGED <<budget, editorVars, stillVars>>

NextEditor == TextAreaChanged \/ TimePasses \/ AutoSaveAndRefresh \/ ActionSaveFile

SpecEditor == InitEditor /\ [][NextEditor]_vars

(* time passes, and the event loop runs the callback of a timer that is due *)
SpecEditorFair == SpecEditor /\ WF_vars(TimePasses) /\ WF_vars(AutoSaveAndRefresh)

(* at most one timer runs, and it is the one the application holds *)
OneTimer ==
  /\ Cardinality(DOMAIN timers) <= 1
  /\ DOMAIN timers = debounce_timer

(* an auto-save follows at least one change not yet saved, comes no sooner  *)
(* than 500 ms after the last change, and leaves the file as the text       *)
SavedOncePerBurst ==
  last.op = "auto_save" =>
    /\ last.unsaved >= 1
    /\ last.quiet >= DebounceTicks
    /\ ReadFile(fs, MainPath) = text
    /\ timers = <<>>

====
